---- MODULE Spec2Model ----
(***************************************************************************)
(* Model of api/data.js (latest revision, the handler exported last):     *)
(* the article/pageview reconciliation pipeline, the period delta, and    *)
(* the request handler with its batch mode.                               *)
(***************************************************************************)
EXTENDS Integers, Sequences, FiniteSets, TLC

\* ------------------------------------------------------------------------
\* Bounds of the model
\* ------------------------------------------------------------------------
MaxPosts == 3
MaxRows == 3
MaxMetric == 150
MaxBatch == 2

\* ------------------------------------------------------------------------
\* Input domains
\* ------------------------------------------------------------------------
\* Content snapshots of the CMS, newest first; the `after` cutoff of the
\* content query selects a prefix of the snapshot.
Sites == { <<"a", "b", "c">>, <<"c", "b", "b", "a">> }

Channels == {"Direct", "Organic Search"}

\* URL paths the analytics report may carry.
GAPaths == { "/news/a/", "/news/a", "/artikel/a/", "/artikel/a", "/a/", "/a",
             "/news/b/", "/artikel/c/" }

\* Pageview counts one analytics row may carry (parseInt of the metric value).
ViewCounts == {0, 1}

EmptyMap == [x \in {} |-> 0]

VARIABLES
    pc,         \* position of the reconciliation pipeline
    posts,      \* result of the content fetch
    viewMap,    \* path index built by getViewsByChannel
    nrows,      \* number of analytics rows processed so far
    articles,   \* result of getArticlesWithChannels
    summary,    \* result of newArticlesThisMonth
    stories,    \* result of topstories
    analysis    \* result of contentAnalysis

reconVars == <<pc, posts, viewMap, nrows, articles, summary, stories, analysis>>

VARIABLES
    dsite,      \* which delta helper ran ("none" before)
    dcur,       \* current-period value
    dprev,      \* previous-period value
    dres        \* the delta returned

deltaVars == <<dsite, dcur, dprev, dres>>

VARIABLES
    env,        \* process.env: the set of configured variables
    req,        \* the request being handled
    hpc,        \* handler position: "start", "await", "done"
    tasks,      \* the pipeline(s) of the request: one, or one per batch entry
    ga4Client,  \* _ga4Client is set
    gscClient,  \* _gscClient is set
    net,        \* kinds of network requests issued so far
    log,        \* number of console.error calls so far
    results,    \* batch: the results object
    settled,    \* batch: indices of the settled sub-actions, in settle order
    resp,       \* the response sent
    responses   \* status codes of the res.end() / res.json() calls so far

handlerVars == <<env, req, hpc, tasks, ga4Client, gscClient, net, log,
                 results, settled, resp, responses>>

VARIABLES
    gpc,        \* position of searchConsoleForPath[Regex]
    gup,        \* what the search service holds for each of the four queries
    gst,        \* state of each safeQuery call
    gres,       \* what each safeQuery call resolved with
    glog,       \* number of console.error calls of safeQuery
    gout        \* the object searchConsoleForPath[Regex] returns

gscVars == <<gpc, gup, gst, gres, glog, gout>>

VARIABLES
    rpc,        \* position of the ranking action
    rop,        \* the ranking action that ran ("none" before)
    rin,        \* the articles getArticlesWithChannels returned
    rout,       \* the ranking returned
    rsorted     \* that ranking after the same sort and slice once more

rankVars == <<rpc, rop, rin, rout, rsorted>>

VARIABLES
    clockNow,    \* the instant `new Date()` yields, as the hour that contains it
    clockOffset, \* local time minus UTC of the execution environment, in hours
    rangeToken,  \* the range parameter of the request
    dateOp,      \* the date computation that ran ("none" before)
    dateOut      \* what it produced

dateVars == <<clockNow, clockOffset, rangeToken, dateOp, dateOut>>

VARIABLES
    keyJson,    \* process.env.GA4_SERVICE_ACCOUNT_JSON: "absent", "malformed", "valid"
    ga4Inst,    \* _ga4Client: 0 for null, else the number of the instance
    gscInst,    \* _gscClient: 0 for null, else the number of the instance
    made,       \* how many clients of each kind were constructed
    getterCalls \* the getter calls so far, with what each returned or threw

clientVars == <<keyJson, ga4Inst, gscInst, made, getterCalls>>

VARIABLES
    rvPc,       \* position of reviewCandidates
    rvUp,       \* what the CMS holds: published, draft and pending items
    rvSt,       \* state of each of the three content fetches
    rvRes,      \* what each element of Promise.all settled with
    rvOut       \* the list reviewCandidates returns

reviewVars == <<rvPc, rvUp, rvSt, rvRes, rvOut>>

vars == <<reconVars, deltaVars, handlerVars, gscVars, rankVars, dateVars,
          clientVars, reviewVars>>

NoOutput == [kind |-> "none"]

GscIdle ==
    /\ gpc = "off"
    /\ gup = <<>>
    /\ gst = <<>>
    /\ gres = <<>>
    /\ glog = 0
    /\ gout = NoOutput

DateIdle ==
    /\ clockNow = 0
    /\ clockOffset = 0
    /\ rangeToken = [kind |-> "none"]
    /\ dateOp = "off"
    /\ dateOut = NoOutput

ClientIdle ==
    /\ keyJson = "off"
    /\ ga4Inst = 0
    /\ gscInst = 0
    /\ made = [ga4 |-> 0, gsc |-> 0]
    /\ getterCalls = <<>>

ReviewIdle ==
    /\ rvPc = "off"
    /\ rvUp = <<>>
    /\ rvSt = <<>>
    /\ rvRes = <<>>
    /\ rvOut = NoOutput

RankIdle ==
    /\ rpc = "off"
    /\ rop = "none"
    /\ rin = <<>>
    /\ rout = <<>>
    /\ rsorted = <<>>

\* ------------------------------------------------------------------------
\* Pure helpers
\* ------------------------------------------------------------------------
\* Variant: the quotient is truncated.
MathFloorDiv(n, d) == n \div d

\* Math.round for a quotient n / d with d > 0: floor(n/d + 1/2).
MathRoundDiv(n, d) == (2 * n + d) \div (2 * d)

RECURSIVE SumMap(_)
SumMap(f) ==
    IF DOMAIN f = {} THEN 0
    ELSE LET k == CHOOSE x \in DOMAIN f : TRUE
         IN f[k] + SumMap([y \in DOMAIN f \ {k} |-> f[y]])

RECURSIVE SumViews(_, _)
SumViews(as, i) == IF i = 0 THEN 0 ELSE as[i].pageviews + SumViews(as, i - 1)

\* The content item at position i of a snapshot.
SitePost(site, i) ==
    [id |-> i, title |-> i, slug |-> site[((i - 1) % Len(site)) + 1]]

\* wpFetch(posts?...&after=...&orderby=date&order=desc): the n newest items.
WpPosts(site, n) == [i \in 1..n |-> SitePost(site, i)]

\* ------------------------------------------------------------------------
\* getViewsByChannel: one iteration of response.rows.forEach
\* ------------------------------------------------------------------------
\* Variant: the channel value is overwritten instead of accumulated.
AccumulateRowOverwrite(map, path, channel, views) ==
    LET old == IF path \in DOMAIN map THEN map[path]
               ELSE [total |-> 0, channels |-> EmptyMap]
        new == [total |-> old.total + views,
                channels |-> [c \in DOMAIN old.channels \cup {channel} |->
                                 IF c = channel THEN views ELSE old.channels[c]]]
    IN [p \in DOMAIN map \cup {path} |-> IF p = path THEN new ELSE map[p]]

AccumulateRow(map, path, channel, views) ==
    LET old == IF path \in DOMAIN map THEN map[path]
               ELSE [total |-> 0, channels |-> EmptyMap]
        prev == IF channel \in DOMAIN old.channels THEN old.channels[channel] ELSE 0
        new == [total |-> old.total + views,
                channels |-> [c \in DOMAIN old.channels \cup {channel} |->
                                 IF c = channel THEN prev + views ELSE old.channels[c]]]
    IN [p \in DOMAIN map \cup {path} |-> IF p = path THEN new ELSE map[p]]

\* ------------------------------------------------------------------------
\* getArticlesWithChannels
\* ------------------------------------------------------------------------
\* Variant: the legacy convention is tried before the primary one.
CandidatePathsLegacyFirst(slug) ==
    << "/artikel/" \o slug \o "/",
       "/artikel/" \o slug,
       "/news/" \o slug \o "/",
       "/news/" \o slug,
       "/" \o slug \o "/",
       "/" \o slug >>

CandidatePaths(slug) ==
    << "/news/" \o slug \o "/",
       "/news/" \o slug,
       "/artikel/" \o slug \o "/",
       "/artikel/" \o slug,
       "/" \o slug \o "/",
       "/" \o slug >>

\* for (const path of paths) { if (viewMap[path]) { data = viewMap[path]; break; } }
RECURSIVE FindData(_, _, _)
FindData(paths, k, map) ==
    IF k > Len(paths) THEN [total |-> 0, channels |-> EmptyMap]
    ELSE IF paths[k] \in DOMAIN map THEN map[paths[k]]
    ELSE FindData(paths, k + 1, map)

ReconcileOne(p, map) ==
    LET data == FindData(CandidatePaths(p.slug), 1, map)
    IN [title |-> p.title,
        path |-> "/news/" \o p.slug \o "/",
        slug |-> p.slug,
        pageviews |-> data.total,
        channels |-> data.channels]

\* Variant: items without traffic are filtered out of the result.
ReconcileMatchedOnly(ps, map) ==
    SelectSeq([i \in 1..Len(ps) |-> ReconcileOne(ps[i], map)],
              LAMBDA a : a.pageviews > 0)

\* posts.map(p => ...)
ReconcileAll(ps, map) == [i \in 1..Len(ps) |-> ReconcileOne(ps[i], map)]

\* ------------------------------------------------------------------------
\* newArticlesThisMonth: the summary over the reconciled articles
\* ------------------------------------------------------------------------
\* Variant: only articles with traffic are counted.
NewArticlesSummaryViewedOnly(as) ==
    LET total == SumViews(as, Len(as))
        seen == SelectSeq(as, LAMBDA a : a.pageviews > 0)
    IN [count |-> Len(seen),
        pageviews |-> total,
        avgPageviews |-> IF Len(seen) > 0 THEN MathRoundDiv(total, Len(seen)) ELSE 0,
        articles |-> [i \in 1..Len(as) |->
                         [title |-> as[i].title, pageviews |-> as[i].pageviews]]]

NewArticlesSummary(as) ==
    LET total == SumViews(as, Len(as))
    IN [count |-> Len(as),
        pageviews |-> total,
        avgPageviews |-> IF Len(as) > 0 THEN MathRoundDiv(total, Len(as)) ELSE 0,
        articles |-> [i \in 1..Len(as) |->
                         [title |-> as[i].title, pageviews |-> as[i].pageviews]]]

NoSummary == [count |-> -1]

\* ------------------------------------------------------------------------
\* The reconciliation pipeline as a state machine
\* ------------------------------------------------------------------------
ReconStart ==
    /\ pc = "fetch"
    /\ posts = <<>>
    /\ viewMap = EmptyMap
    /\ nrows = 0
    /\ articles = <<>>
    /\ summary = NoSummary
    /\ stories = NoOutput
    /\ analysis = NoOutput

\* const posts = await wpFetch(query); if (!posts.length) return [];
FetchPosts ==
    /\ pc = "fetch"
    /\ \E site \in Sites, n \in 0..MaxPosts :
          /\ posts' = WpPosts(site, n)
          /\ pc' = IF n = 0 THEN "mapped" ELSE "views"
    /\ articles' = <<>>
    /\ UNCHANGED <<viewMap, nrows, summary, stories, analysis>>
    /\ UNCHANGED <<deltaVars, handlerVars, gscVars, rankVars,
                 dateVars, clientVars, reviewVars>>

\* getViewsByChannel: one more row of the analytics report
ViewsRow ==
    /\ pc = "views"
    /\ nrows < MaxRows
    /\ \E path \in GAPaths, channel \in Channels, views \in ViewCounts :
          viewMap' = AccumulateRow(viewMap, path, channel, views)
    /\ nrows' = nrows + 1
    /\ UNCHANGED <<pc, posts, articles, summary, stories, analysis>>
    /\ UNCHANGED <<deltaVars, handlerVars, gscVars, rankVars,
                 dateVars, clientVars, reviewVars>>

\* getViewsByChannel returns; getArticlesWithChannels maps the posts
Reconcile ==
    /\ pc = "views"
    /\ articles' = ReconcileAll(posts, viewMap)
    /\ pc' = "mapped"
    /\ UNCHANGED <<posts, viewMap, nrows, summary, stories, analysis>>
    /\ UNCHANGED <<deltaVars, handlerVars, gscVars, rankVars,
                 dateVars, clientVars, reviewVars>>

NewArticlesThisMonth ==
    /\ pc = "mapped"
    /\ summary' = NewArticlesSummary(articles)
    /\ pc' = "done"
    /\ UNCHANGED <<posts, viewMap, nrows, articles, stories, analysis>>
    /\ UNCHANGED <<deltaVars, handlerVars, gscVars, rankVars,
                 dateVars, clientVars, reviewVars>>

NoResp == [status |-> 0]

HandlerIdle ==
    /\ env = {}
    /\ req = [method |-> "off"]
    /\ hpc = "off"
    /\ tasks = <<>>
    /\ ga4Client = FALSE
    /\ gscClient = FALSE
    /\ net = {}
    /\ log = 0
    /\ results = EmptyMap
    /\ settled = <<>>
    /\ resp = NoResp
    /\ responses = <<>>

\* ------------------------------------------------------------------------
\* Period delta (kpis, monthlyStats, searchConsoleForPath[Regex])
\* ------------------------------------------------------------------------
Null == [kind |-> "null"]
Num(v) == [kind |-> "number", value |-> v]

\* Math.round(((c - p) / p) * 100) for p > 0.  The quotient is evaluated in
\* binary floating point: away from a half-way point the result is the
\* nearest integer; exactly half-way (2 * 100 * (c - p) an odd multiple of
\* p) the representation error decides between the two neighbours.
RoundedPercent(c, p) ==
    LET n == 100 * (c - p)
        lo == n \div p
    IN IF (2 * n) % p = 0 /\ n % p # 0
       THEN {lo, lo + 1}
       ELSE {MathRoundDiv(n, p)}

\* kpis: if (!p) return null; return Math.round(((c - p) / p) * 100)
KpisDelta(c, p) == IF p = 0 THEN {Null} ELSE {Num(r) : r \in RoundedPercent(c, p)}

\* Variant: the percentage is truncated towards minus infinity.
MonthlyDeltaFloor(c, p) == IF p = 0 THEN {Null} ELSE {Num((100 * (c - p)) \div p)}

\* monthlyStats: p === 0 ? null : Math.round(((c - p) / p) * 100)
MonthlyDelta(c, p) == IF p = 0 THEN {Null} ELSE {Num(r) : r \in RoundedPercent(c, p)}

\* searchConsoleForPath / searchConsoleForPathRegex: delta, deltaCalc
GscDelta(c, prev) ==
    IF prev = 0 THEN {Null} ELSE {Num(r) : r \in RoundedPercent(c, prev)}

DeltaIdle ==
    /\ dsite = "off"
    /\ dcur = 0
    /\ dprev = 0
    /\ dres = Null

DeltaStart ==
    /\ dsite = "none"
    /\ dcur \in 0..MaxMetric
    /\ dprev \in 0..MaxMetric
    /\ dres = Null

KpisComputeDelta ==
    /\ dsite = "none"
    /\ dres' \in KpisDelta(dcur, dprev)
    /\ dsite' = "kpis"
    /\ UNCHANGED <<dcur, dprev>>
    /\ UNCHANGED <<reconVars, handlerVars, gscVars, rankVars,
                 dateVars, clientVars, reviewVars>>

MonthlyStatsComputeDelta ==
    /\ dsite = "none"
    /\ dres' \in MonthlyDelta(dcur, dprev)
    /\ dsite' = "monthlyStats"
    /\ UNCHANGED <<dcur, dprev>>
    /\ UNCHANGED <<reconVars, handlerVars, gscVars, rankVars,
                 dateVars, clientVars, reviewVars>>

SearchConsoleComputeDelta ==
    /\ dsite = "none"
    /\ dres' \in GscDelta(dcur, dprev)
    /\ dsite' = "searchConsole"
    /\ UNCHANGED <<dcur, dprev>>
    /\ UNCHANGED <<reconVars, handlerVars, gscVars, rankVars,
                 dateVars, clientVars, reviewVars>>

DeltaNext == KpisComputeDelta \/ MonthlyStatsComputeDelta \/ SearchConsoleComputeDelta

ReconIdle ==
    /\ pc = "off"
    /\ posts = <<>>
    /\ viewMap = EmptyMap
    /\ nrows = 0
    /\ articles = <<>>
    /\ summary = NoSummary
    /\ stories = NoOutput
    /\ analysis = NoOutput

DeltaInit == DeltaStart /\ ReconIdle /\ HandlerIdle /\ GscIdle /\ RankIdle
    /\ DateIdle /\ ClientIdle /\ ReviewIdle

SpecDelta == DeltaInit /\ [][DeltaNext]_vars
\* ------------------------------------------------------------------------
\* Request handler: inputs
\* ------------------------------------------------------------------------
EnvVars == {"GA4_SERVICE_ACCOUNT_JSON", "WP_URL", "WP_USER", "WP_APP_PASS",
            "ANTHROPIC_API_KEY", "OPENAI_API_KEY"}

\* The configurations considered: complete, or one variable absent.
Envs == {EnvVars} \cup {EnvVars \ {v} : v \in EnvVars}

Methods == {"GET", "POST", "OPTIONS"}

\* The case labels of the handler's switch.
DispatchedActions ==
    {"batch", "top5", "flop5", "top5New", "flop5New", "topstories", "kpis",
     "sources", "articles", "reviewCandidates", "articleContent",
     "publishPost", "aiReview", "aiAssist", "createPost", "generateImage",
     "topArticlesForDate", "searchconsole", "searchconsoleNews",
     "searchconsoleAktienNews", "searchconsoleDebug", "monthlyStats",
     "newArticles", "dailyPageviews", "topPagesByChannel", "contentAnalysis",
     "contentAttribution"}

\* The identifiers named after "Verfuegbar:" in the message of the default case.
ListedActions ==
    {"top5", "flop5", "top5New", "flop5New", "topstories", "kpis", "sources",
     "articles", "monthlyStats", "newArticles", "searchconsoleNews",
     "searchconsoleAktienNews", "searchconsoleDebug", "reviewCandidates",
     "articleContent", "publishPost", "aiReview", "aiAssist", "createPost"}

\* The case labels of the switch inside batch.
BatchActions ==
    {"kpis", "top5", "sources", "monthlyStats", "newArticles",
     "dailyPageviews", "reviewCandidates", "contentAnalysis",
     "contentAttribution"}

\* Action parameters no case matches; "undefined" is a request without one.
UnknownActions == {"bogus", "undefined"}

\* Identifiers a batch request may name in this model: one batch action per
\* shape of pipeline (sources and monthlyStats run the plan of kpis,
\* newArticles that of top5), an action only the handler dispatches, and an
\* identifier nothing recognises.
BatchPool == {"kpis", "top5", "dailyPageviews", "reviewCandidates", "flop5", "bogus"}

RECURSIVE SeqsUpTo(_, _)
SeqsUpTo(S, n) ==
    IF n = 0 THEN {<<>>}
    ELSE LET shorter == SeqsUpTo(S, n - 1)
         IN shorter \cup {Append(q, x) : q \in {r \in shorter : Len(r) = n - 1}, x \in S}

\* ------------------------------------------------------------------------
\* Pipelines as plans: the checks and network requests of each action, in
\* program order
\* ------------------------------------------------------------------------
\* A synchronous guard that throws msg when `what` is absent.
Need(what, msg) == [op |-> "need", what |-> what, msg |-> msg]
\* getGA4Client() / getSearchConsoleClient()
Ga4Client == [op |-> "ga4client"]
GscClient == [op |-> "gscclient"]
\* One network request.  iso: "none" (a failure throws label), "silent" or
\* "logged" (a failure is caught at the call site and replaced).
Call(svc, write, iso, label) ==
    [svc |-> svc, write |-> write, iso |-> iso, label |-> label]
\* Requests awaited together.  skips: numbers of following steps the code may
\* skip depending on the data returned.
Par(calls, skips) == [op |-> "par", calls |-> calls, skips |-> skips]

WpRead == Call("wp", FALSE, "none", "WP error")
WpReadSilent == Call("wp", FALSE, "silent", "WP error")
WpReadLogged == Call("wp", FALSE, "logged", "WP error")
Ga4Report == Call("ga4", FALSE, "none", "GA4 error")
Ga4ReportSilent == Call("ga4", FALSE, "silent", "GA4 error")
GscQueryLogged == Call("gsc", FALSE, "logged", "GSC error")
GscQuerySilent == Call("gsc", FALSE, "silent", "GSC error")
ClaudeCall == Call("anthropic", FALSE, "none", "Claude API error")
OpenAiCall == Call("openai", FALSE, "none", "OpenAI Image API error")

\* Variant: without items only the construction of the client is skipped.
EmptySkipsClientOnly == {1}

\* if (!posts.length) return []: both steps of getViewsByChannel are skipped.
EmptySkips == {2}

\* Variant: the content fetch is wrapped in a catch that substitutes [].
ArticlesWithChannelsPlanCaught ==
    << Par(<<WpReadSilent>>, {2}), Ga4Client, Par(<<Ga4Report>>, {}) >>

\* getArticlesWithChannels: wpFetch; if (!posts.length) return []; then
\* getViewsByChannel (getGA4Client, runReport)
ArticlesWithChannelsPlan ==
    << Par(<<WpRead>>, EmptySkips), Ga4Client, Par(<<Ga4Report>>, {}) >>

Ga4ReportPlan == << Ga4Client, Par(<<Ga4Report>>, {}) >>

ArticleContentPlan ==
    << Need("postId", "postId parameter required"),
       Par(<<WpRead>>, {}),
       Par(<<WpReadSilent>>, {}) >>

SearchConsolePlan ==
    << GscClient,
       Par(<<GscQueryLogged, GscQueryLogged, GscQueryLogged, GscQueryLogged>>, {}) >>

Plan(action, r) ==
    CASE action \in {"top5", "flop5", "top5New", "flop5New", "topstories",
                     "newArticles"} -> ArticlesWithChannelsPlan
      [] action \in {"kpis", "sources", "monthlyStats", "topPagesByChannel"} ->
            Ga4ReportPlan
      [] action = "topArticlesForDate" ->
            <<Need("date", "TypeError: dateStr is undefined")>> \o Ga4ReportPlan
      [] action = "dailyPageviews" ->
            Ga4ReportPlan \o <<Par(<<Ga4ReportSilent>>, {})>>
      [] action = "articles" -> <<Par(<<WpRead>>, {})>>
      [] action = "contentAnalysis" ->
            ArticlesWithChannelsPlan \o <<Par(<<WpRead>>, {})>>
      [] action = "contentAttribution" ->
            << Ga4Client, Par(<<Ga4Report>>, {1, 2, 3}),
               Par(<<WpReadLogged>>, {}), Par(<<WpReadLogged>>, {}),
               Par(<<WpReadLogged>>, {}) >>
      [] action = "reviewCandidates" ->
            << Par(<<WpRead, WpReadSilent, WpReadSilent>>, {1}),
               Par(<<WpReadSilent>>, {}) >>
      [] action = "articleContent" -> ArticleContentPlan
      [] action = "publishPost" ->
            << Need("postId", "postId parameter required"),
               Par(<<Call("wp", TRUE, "none", "WP publish failed")>>, {}) >>
      [] action = "aiReview" ->
            << Need("postId", "postId parameter required"),
               Need("ANTHROPIC_API_KEY", "ANTHROPIC_API_KEY not set in environment") >>
            \o ArticleContentPlan \o <<Par(<<ClaudeCall>>, {})>>
      [] action = "aiAssist" ->
            << Need("ANTHROPIC_API_KEY", "ANTHROPIC_API_KEY not set on server"),
               Par(<<ClaudeCall>>, {}) >>
      [] action = "createPost" ->
            <<Par(<<Call("wp", TRUE, "none", "WP create error")>>, {})>>
      [] action = "generateImage" ->
            << Need("OPENAI_API_KEY", "OPENAI_API_KEY nicht gesetzt"),
               Par(<<OpenAiCall>>, {}) >>
            \o (IF r.upload
                THEN <<Par(<<Call("wp", TRUE, "none", "WP Media Upload error")>>, {})>>
                ELSE <<>>)
      [] action \in {"searchconsole", "searchconsoleNews",
                     "searchconsoleAktienNews"} -> SearchConsolePlan
      [] action = "searchconsoleDebug" ->
            << GscClient,
               Par(<<GscQuerySilent, GscQuerySilent, GscQuerySilent>>, {}) >>
      [] OTHER -> <<>>

\* ------------------------------------------------------------------------
\* Running a plan
\* ------------------------------------------------------------------------
\* failed: the messages of the requests of the pipeline that failed so far;
\* caught: how many of those failures a catch at the call site absorbed.
\* trace: what the pipeline did so far, in order: a client it constructed,
\* the requests it sent, each completed step with the steps skipped after it.
NewTask(action, plan) ==
    [action |-> action, plan |-> plan, i |-> 1, pending |-> {},
     st |-> "ready", err |-> "", failed |-> {}, caught |-> 0, trace |-> <<>>]

Constructed(svc) == [ev |-> "client", svc |-> svc]
Requested(svc) == [ev |-> "request", svc |-> svc]
Completed(step, skip) == [ev |-> "completed", step |-> step, skip |-> skip]

\* The requests of the calls numbered js, in the order of the calls.
RECURSIVE RequestsOf(_, _, _)
RequestsOf(callList, js, n) ==
    IF n = 0 THEN <<>>
    ELSE RequestsOf(callList, js, n - 1)
         \o (IF n \in js THEN <<Requested(callList[n].svc)>> ELSE <<>>)

Settled(t) == t.st \in {"returned", "threw"}

\* Variant: no parameter and no variable is checked before use.
PresentAlways(what) == TRUE

\* req.query.postId / req.query.date, or a variable of process.env
Present(what) == IF what \in {"postId", "date"} THEN req[what] ELSE what \in env

\* fetch() rejects without sending anything when the URL cannot be parsed:
\* `${base}/wp-json/...` with base undefined.
Unissuable(call) == call.svc = "wp" /\ "WP_URL" \notin env

NetKind(call) == [svc |-> call.svc, write |-> call.write]

Throw(t, msg, c) == [t |-> [t EXCEPT !.st = "threw", !.err = msg], c |-> c]

\* Runs task t from its current step up to its next await, its return or its
\* throw, in one turn of the event loop.  c = [ga4, gsc, net, log].
RECURSIVE Advance(_, _)
Advance(t, c) ==
    IF t.i > Len(t.plan)
    THEN [t |-> [t EXCEPT !.st = "returned"], c |-> c]
    ELSE
      LET s == t.plan[t.i]
          next == [t EXCEPT !.i = t.i + 1, !.st = "ready", !.pending = {}]
      IN CASE s.op = "need" ->
                IF Present(s.what) THEN Advance(next, c) ELSE Throw(t, s.msg, c)
           [] s.op = "ga4client" ->
                IF c.ga4 THEN Advance(next, c)
                ELSE IF "GA4_SERVICE_ACCOUNT_JSON" \in env
                     THEN Advance([next EXCEPT !.trace = Append(@, Constructed("ga4"))],
                                  [c EXCEPT !.ga4 = TRUE])
                     ELSE Throw(t, "GA4_SERVICE_ACCOUNT_JSON not set", c)
           [] s.op = "gscclient" ->
                IF c.gsc THEN Advance(next, c)
                ELSE IF "GA4_SERVICE_ACCOUNT_JSON" \in env
                     THEN Advance([next EXCEPT !.trace = Append(@, Constructed("gsc"))],
                                  [c EXCEPT !.gsc = TRUE])
                     ELSE Throw(t, "GA4_SERVICE_ACCOUNT_JSON not set", c)
           [] s.op = "par" ->
                LET all == 1..Len(s.calls)
                    dead == {j \in all : Unissuable(s.calls[j])}
                    sent == all \ dead
                    c2 == [c EXCEPT
                             !.net = @ \cup {NetKind(s.calls[j]) : j \in sent},
                             !.log = @ + Cardinality({j \in dead : s.calls[j].iso = "logged"})]
                    t2 == [t EXCEPT
                             !.failed = IF dead = {} THEN @
                                        ELSE @ \cup {"Failed to parse URL"},
                             !.caught = @ + Cardinality({j \in dead : s.calls[j].iso # "none"}),
                             !.trace = @ \o RequestsOf(s.calls, sent, Len(s.calls))]
                IN IF \E j \in dead : s.calls[j].iso = "none"
                   THEN Throw([t2 EXCEPT !.pending = sent], "Failed to parse URL", c2)
                   ELSE IF sent = {}
                        THEN Advance([next EXCEPT !.failed = t2.failed,
                                                  !.caught = t2.caught,
                                                  !.trace = Append(t2.trace, Completed(t.i, 0))],
                                     c2)
                        ELSE [t |-> [t2 EXCEPT !.st = "waiting", !.pending = sent],
                              c |-> c2]

\* ------------------------------------------------------------------------
\* batch and the handler's envelope
\* ------------------------------------------------------------------------
Data(action) == [kind |-> "data", of |-> action]
ErrMarker(msg) == [kind |-> "_error", message |-> msg]

Put(f, key, val) == [x \in DOMAIN f \cup {key} |-> IF x = key THEN val ELSE f[x]]

\* Variant: a failed sub-action leaves no entry.
BatchStoreDropError(res, t) ==
    IF t.st = "returned" /\ t.action \in BatchActions
    THEN Put(res, t.action, Data(t.action))
    ELSE res

\* batch: the body of the async callback once its pipeline has settled.  The
\* switch has no default case.
BatchStore(res, t) ==
    IF t.st = "threw" THEN Put(res, t.action, ErrMarker(t.err))
    ELSE IF t.action \in BatchActions THEN Put(res, t.action, Data(t.action))
    ELSE res

\* (req.query.actions || '').split(',').filter(Boolean)
BatchParse(names) == SelectSeq(names, LAMBDA x : x # "")

BatchPlan(action) == IF action \in BatchActions THEN Plan(action, req) ELSE <<>>

\* The three res.setHeader calls every invocation starts with.
CorsHeaders ==
    [origin |-> "*", methods |-> "GET, POST, OPTIONS", allowed |-> "Content-Type"]

Respond200(data) ==
    [status |-> 200, success |-> TRUE, data |-> data, headers |-> CorsHeaders]
Respond500(msg) ==
    [status |-> 500, success |-> FALSE, error |-> msg, headers |-> CorsHeaders]
Respond400 ==
    [status |-> 400, success |-> FALSE, error |-> "Unbekannte action",
     listed |-> ListedActions, headers |-> CorsHeaders]

\* Variant: the preflight is answered 204.
RespondOptionsNoContent == [status |-> 204, ended |-> TRUE, headers |-> CorsHeaders]

\* res.status(200).end()
RespondOptions == [status |-> 200, ended |-> TRUE, headers |-> CorsHeaders]

\* Variant: the catch block answers with the success status.
HandlerEnvelopeAlways200(t) ==
    IF t.st = "returned" THEN Respond200(Data(t.action))
    ELSE [status |-> 200, success |-> FALSE, error |-> t.err, headers |-> CorsHeaders]

\* return res.status(200).json(...) / catch (err) { ... res.status(500).json(...) }
HandlerEnvelope(t) ==
    IF t.st = "returned" THEN Respond200(Data(t.action)) ELSE Respond500(t.err)

IsBatch == req.action = "batch"

\* Records the outcome r = [t, c] of one turn of task k in the bundle
\* b = [tasks, c, results, settled].
Absorb(b, k, r) ==
    [tasks |-> [b.tasks EXCEPT ![k] = r.t],
     c |-> r.c,
     results |-> IF IsBatch /\ Settled(r.t) THEN BatchStore(b.results, r.t)
                 ELSE b.results,
     settled |-> IF Settled(r.t) THEN Append(b.settled, k) ELSE b.settled]

\* actions.map(async ...): every callback runs up to its first await, in order.
RECURSIVE StartFrom(_, _)
StartFrom(b, k) ==
    IF k > Len(b.tasks) THEN b
    ELSE StartFrom(Absorb(b, k, Advance(b.tasks[k], b.c)), k + 1)

Bundle == [tasks |-> tasks,
           c |-> [ga4 |-> ga4Client, gsc |-> gscClient, net |-> net, log |-> log],
           results |-> results, settled |-> settled]

\* Variant: the handler goes on as soon as one of the callbacks has settled.
AnySettled(ts) == \E k \in 1..Len(ts) : Settled(ts[k])

\* await Promise.all(promises), or the single awaited action of the switch:
\* the handler goes on once every pipeline has settled (a callback of batch
\* never rejects).
AllSettled(ts) == \A k \in 1..Len(ts) : Settled(ts[k])

\* Publishes a bundle; answers once every pipeline of the request has settled.
Finish(b) ==
    LET done == AllSettled(b.tasks)
        failed == ~IsBatch /\ done /\ b.tasks[1].st = "threw"
    IN /\ tasks' = b.tasks
       /\ ga4Client' = b.c.ga4
       /\ gscClient' = b.c.gsc
       /\ net' = b.c.net
       /\ results' = b.results
       /\ settled' = b.settled
       /\ log' = b.c.log + (IF failed THEN 1 ELSE 0)
       /\ hpc' = IF done THEN "done" ELSE "await"
       /\ resp' = IF ~done THEN resp
                  ELSE IF IsBatch THEN Respond200(b.results)
                  ELSE HandlerEnvelope(b.tasks[1])
       /\ responses' = IF ~done THEN responses
                       ELSE IF IsBatch THEN Append(responses, 200)
                       ELSE Append(responses, HandlerEnvelope(b.tasks[1]).status)

\* ------------------------------------------------------------------------
\* The handler as a state machine
\* ------------------------------------------------------------------------
Requests ==
    { r \in [method : Methods,
             action : DispatchedActions \cup UnknownActions,
             postId : BOOLEAN, date : BOOLEAN, upload : BOOLEAN,
             actions : SeqsUpTo(BatchPool \cup {""}, MaxBatch)] :
        /\ r.action \notin {"articleContent", "publishPost", "aiReview"} => r.postId
        /\ r.action # "topArticlesForDate" => r.date
        /\ ~(r.action = "generateImage" /\ r.method = "POST") => r.upload
        /\ r.action # "batch" => r.actions = <<>> }

HandlerStart ==
    /\ env \in Envs
    /\ req \in Requests
    /\ hpc = "start"
    /\ tasks = <<>>
    /\ ga4Client = FALSE
    /\ gscClient = FALSE
    /\ net = {}
    /\ log = 0
    /\ results = EmptyMap
    /\ settled = <<>>
    /\ resp = NoResp
    /\ responses = <<>>

\* if (req.method === 'OPTIONS') return res.status(200).end();
HandleOptions ==
    /\ hpc = "start"
    /\ req.method = "OPTIONS"
    /\ resp' = RespondOptions
    /\ responses' = Append(responses, RespondOptions.status)
    /\ hpc' = "done"
    /\ UNCHANGED <<env, req, tasks, ga4Client, gscClient, net, log, results, settled>>
    /\ UNCHANGED <<reconVars, deltaVars, gscVars, rankVars,
                 dateVars, clientVars, reviewVars>>

\* Variant: the default case without its return; the success response of
\* the line after the switch follows.
DefaultCaseFallsThrough == <<400, 200>>

\* default: return res.status(400).json(...): one response, then the handler
\* returns.
DefaultCase == <<Respond400.status>>

HandleUnknown ==
    /\ hpc = "start"
    /\ req.method # "OPTIONS"
    /\ req.action \notin DispatchedActions
    /\ resp' = Respond400
    /\ responses' = responses \o DefaultCase
    /\ hpc' = "done"
    /\ UNCHANGED <<env, req, tasks, ga4Client, gscClient, net, log, results, settled>>
    /\ UNCHANGED <<reconVars, deltaVars, gscVars, rankVars,
                 dateVars, clientVars, reviewVars>>

\* case 'batch'
HandleBatch ==
    /\ hpc = "start"
    /\ req.method # "OPTIONS"
    /\ req.action = "batch"
    /\ LET actions == BatchParse(req.actions)
       IN IF Len(actions) = 0
          THEN /\ resp' = Respond500("actions parameter required (comma-separated)")
               /\ responses' = Append(responses, 500)
               /\ log' = log + 1
               /\ hpc' = "done"
               /\ UNCHANGED <<tasks, ga4Client, gscClient, net, results, settled>>
          ELSE Finish(StartFrom(
                   [Bundle EXCEPT !.tasks =
                       [k \in 1..Len(actions) |->
                           NewTask(actions[k], BatchPlan(actions[k]))]], 1))
    /\ UNCHANGED <<env, req>>
    /\ UNCHANGED <<reconVars, deltaVars, gscVars, rankVars,
                 dateVars, clientVars, reviewVars>>

\* every other case of the switch
HandleAction ==
    /\ hpc = "start"
    /\ req.method # "OPTIONS"
    /\ req.action \in DispatchedActions \ {"batch"}
    /\ Finish(StartFrom(
          [Bundle EXCEPT !.tasks = <<NewTask(req.action, Plan(req.action, req))>>], 1))
    /\ UNCHANGED <<env, req>>
    /\ UNCHANGED <<reconVars, deltaVars, gscVars, rankVars,
                 dateVars, clientVars, reviewVars>>

\* An awaited request of task k comes back successfully.
CallSucceeds ==
    /\ hpc = "await"
    /\ \E k \in 1..Len(tasks) :
          /\ tasks[k].st = "waiting"
          /\ \E j \in tasks[k].pending :
                LET t == tasks[k]
                    left == t.pending \ {j}
                IN IF left # {}
                   THEN Finish(Absorb(Bundle, k,
                            [t |-> [t EXCEPT !.pending = left], c |-> Bundle.c]))
                   ELSE \E skip \in {0} \cup t.plan[t.i].skips :
                           Finish(Absorb(Bundle, k,
                               Advance([t EXCEPT !.i = t.i + 1 + skip,
                                                 !.st = "ready", !.pending = {},
                                                 !.trace = Append(@, Completed(t.i, skip))],
                                       Bundle.c)))
    /\ UNCHANGED <<env, req>>
    /\ UNCHANGED <<reconVars, deltaVars, gscVars, rankVars,
                 dateVars, clientVars, reviewVars>>

\* An awaited request of task k fails (network error or non-OK status).
CallFails ==
    /\ hpc = "await"
    /\ \E k \in 1..Len(tasks) :
          /\ tasks[k].st = "waiting"
          /\ \E j \in tasks[k].pending :
                LET call == tasks[k].plan[tasks[k].i].calls[j]
                    t == [tasks[k] EXCEPT
                            !.failed = @ \cup {call.label},
                            !.caught = @ + (IF call.iso = "none" THEN 0 ELSE 1)]
                    left == t.pending \ {j}
                    c2 == [Bundle.c EXCEPT
                             !.log = @ + (IF call.iso = "logged" THEN 1 ELSE 0)]
                IN IF call.iso = "none"
                   THEN Finish(Absorb(Bundle, k,
                            Throw([t EXCEPT !.pending = left], call.label, Bundle.c)))
                   ELSE IF left # {}
                        THEN Finish(Absorb(Bundle, k,
                                 [t |-> [t EXCEPT !.pending = left], c |-> c2]))
                        ELSE \E skip \in {0} \cup t.plan[t.i].skips :
                                Finish(Absorb(Bundle, k,
                                    Advance([t EXCEPT !.i = t.i + 1 + skip,
                                                      !.st = "ready", !.pending = {},
                                                      !.trace = Append(@, Completed(t.i, skip))],
                                            c2)))
    /\ UNCHANGED <<env, req>>
    /\ UNCHANGED <<reconVars, deltaVars, gscVars, rankVars,
                 dateVars, clientVars, reviewVars>>

HandlerNext ==
    \/ HandleOptions
    \/ HandleUnknown
    \/ HandleBatch
    \/ HandleAction
    \/ CallSucceeds
    \/ CallFails

HandlerInit == HandlerStart /\ ReconIdle /\ DeltaIdle /\ GscIdle /\ RankIdle
    /\ DateIdle /\ ClientIdle /\ ReviewIdle

SpecHandler == HandlerInit /\ [][HandlerNext]_vars

\* ------------------------------------------------------------------------
\* searchConsoleForPath / searchConsoleForPathRegex (the two bodies differ
\* only in the filter they send and in the text they log)
\* ------------------------------------------------------------------------
MaxGscRows == 2

\* Rows the search service may return.  clicks and impressions are counts,
\* ctr is in units of 1/10000 and position in units of 1/100.
GscSummaryRows ==
    { [clicks |-> 3, impressions |-> 40, ctr |-> 750, position |-> 123],
      [clicks |-> 0, impressions |-> 7, ctr |-> 0, position |-> 41] }

GscDimensionRows ==
    { [keys |-> <<"k1">>, clicks |-> 2, impressions |-> 9, ctr |-> 2222, position |-> 31],
      [keys |-> <<"k2">>, clicks |-> 1, impressions |-> 30, ctr |-> 333, position |-> 1087] }

\* The four requests handed to Promise.all, in order.
GscQueries == <<"summary", "prevSummary", "keywords", "pages">>

\* A query without dimensions yields at most one row.
GscAnswers(q) ==
    IF q \in {"summary", "prevSummary"}
    THEN SeqsUpTo(GscSummaryRows, 1)
    ELSE SeqsUpTo(GscDimensionRows, MaxGscRows)

Fulfilled(rows) == [state |-> "fulfilled", rows |-> rows]

\* Variant: safeQuery has no try/catch, the rejection reaches Promise.all.
SafeQueryNoCatch == [value |-> [state |-> "rejected", rows |-> <<>>], logged |-> 0]

\* safeQuery, catch branch: console.error(...); return { data: { rows: [] } }
SafeQueryCatch == [value |-> Fulfilled(<<>>), logged |-> 1]

\* summary.data.rows?.[0] || { clicks: 0, impressions: 0, ctr: 0, position: 0 }
FirstRowOrZero(rows) ==
    IF Len(rows) > 0 THEN rows[1]
    ELSE [clicks |-> 0, impressions |-> 0, ctr |-> 0, position |-> 0]

\* Math.round(x * 1000) / 10 for ctr and Math.round(x * 10) / 10 for position:
\* the value in tenths (of a percent, of a rank).
RoundTenths(v) == MathRoundDiv(v, 10)

\* Math.round of a count is the count.
GscSummaryOut(r) ==
    [clicks |-> r.clicks,
     impressions |-> r.impressions,
     ctr |-> RoundTenths(r.ctr),
     position |-> RoundTenths(r.position)]

GscDeltaOut(s, p) ==
    { [clicks |-> dc,
       impressions |-> di,
       ctr |-> RoundTenths(s.ctr - p.ctr),
       position |-> RoundTenths(p.position - s.position)] :
         dc \in GscDelta(s.clicks, p.clicks),
         di \in GscDelta(s.impressions, p.impressions) }

KeywordOut(r) ==
    [keyword |-> r.keys[1], clicks |-> r.clicks, impressions |-> r.impressions,
     ctr |-> RoundTenths(r.ctr), position |-> RoundTenths(r.position)]

PageOut(r) ==
    [page |-> r.keys[1], clicks |-> r.clicks, impressions |-> r.impressions,
     ctr |-> RoundTenths(r.ctr), position |-> RoundTenths(r.position)]

\* The objects the function may return for the four resolved values.
SearchConsoleResult(res) ==
    LET s == FirstRowOrZero(res[1].rows)
        p == FirstRowOrZero(res[2].rows)
    IN { [kind |-> "result",
          summary |-> GscSummaryOut(s),
          delta |-> d,
          keywords |-> [i \in 1..Len(res[3].rows) |-> KeywordOut(res[3].rows[i])],
          pages |-> [i \in 1..Len(res[4].rows) |-> PageOut(res[4].rows[i])]] :
            d \in GscDeltaOut(s, p) }

\* getSearchConsoleClient() has returned the client; nothing is issued yet.
GscStart ==
    /\ gpc = "start"
    /\ gup \in [1..4 -> UNION {GscAnswers(GscQueries[j]) : j \in 1..4}]
    /\ \A j \in 1..4 : gup[j] \in GscAnswers(GscQueries[j])
    /\ gst = [j \in 1..4 |-> "idle"]
    /\ gres = [j \in 1..4 |-> [state |-> "none", rows |-> <<>>]]
    /\ glog = 0
    /\ gout = NoOutput

\* Promise.all([safeQuery(..), safeQuery(..), safeQuery(..), safeQuery(..)]):
\* each call runs up to its await, so all four requests are sent in one turn.
SearchConsoleIssue ==
    /\ gpc = "start"
    /\ gst' = [j \in 1..4 |-> "pending"]
    /\ gpc' = "await"
    /\ UNCHANGED <<gup, gres, glog, gout>>
    /\ UNCHANGED <<reconVars, deltaVars, handlerVars, rankVars,
                 dateVars, clientVars, reviewVars>>

\* sc.searchanalytics.query resolves: return result
GscQueryResolves ==
    /\ gpc = "await"
    /\ \E j \in 1..4 :
          /\ gst[j] = "pending"
          /\ gst' = [gst EXCEPT ![j] = "ok"]
          /\ gres' = [gres EXCEPT ![j] = Fulfilled(gup[j])]
    /\ UNCHANGED <<gpc, gup, glog, gout>>
    /\ UNCHANGED <<reconVars, deltaVars, handlerVars, rankVars,
                 dateVars, clientVars, reviewVars>>

\* sc.searchanalytics.query rejects
GscQueryRejects ==
    /\ gpc = "await"
    /\ \E j \in 1..4 :
          /\ gst[j] = "pending"
          /\ gst' = [gst EXCEPT ![j] = "failed"]
          /\ gres' = [gres EXCEPT ![j] = SafeQueryCatch.value]
    /\ glog' = glog + SafeQueryCatch.logged
    /\ UNCHANGED <<gpc, gup, gout>>
    /\ UNCHANGED <<reconVars, deltaVars, handlerVars, rankVars,
                 dateVars, clientVars, reviewVars>>

\* Promise.all has resolved: the return statement
SearchConsoleReturn ==
    /\ gpc = "await"
    /\ \A j \in 1..4 : gres[j].state = "fulfilled"
    /\ gout' \in SearchConsoleResult(gres)
    /\ gpc' = "done"
    /\ UNCHANGED <<gup, gst, gres, glog>>
    /\ UNCHANGED <<reconVars, deltaVars, handlerVars, rankVars,
                 dateVars, clientVars, reviewVars>>

GscNext ==
    \/ SearchConsoleIssue
    \/ GscQueryResolves
    \/ GscQueryRejects
    \/ SearchConsoleReturn

GscInit == GscStart /\ ReconIdle /\ DeltaIdle /\ HandlerIdle /\ RankIdle
    /\ DateIdle /\ ClientIdle /\ ReviewIdle

SpecGsc == GscInit /\ [][GscNext]_vars

\* ------------------------------------------------------------------------
\* top5, flop5, top5NewThisMonth, flop5NewThisMonth
\* ------------------------------------------------------------------------
MaxArticles == 6

\* Pageviews an article may carry here.
RankViews == {0, 1, 2}

\* What getArticlesWithChannels may return: the items newest first, each
\* with some pageviews.
RankInputs ==
    { [i \in 1..n |-> [title |-> i, pageviews |-> f[i]]] :
        n \in 0..MaxArticles, f \in [1..MaxArticles -> RankViews] }

\* (a, b) => b.pageviews - a.pageviews  /  (a, b) => a.pageviews - b.pageviews
Compare(a, b, desc) ==
    IF desc THEN b.pageviews - a.pageviews ELSE a.pageviews - b.pageviews

\* Variant: an element is placed before the elements it ties with.
InsertBeforeTies(s, x, desc) ==
    SelectSeq(s, LAMBDA e : Compare(e, x, desc) < 0)
    \o <<x>>
    \o SelectSeq(s, LAMBDA e : Compare(e, x, desc) >= 0)

\* Array.prototype.sort is stable: x goes behind every element that does
\* not compare greater.
InsertStable(s, x, desc) ==
    SelectSeq(s, LAMBDA e : Compare(e, x, desc) <= 0)
    \o <<x>>
    \o SelectSeq(s, LAMBDA e : Compare(e, x, desc) > 0)

\* as.sort(compare), over the first n elements
RECURSIVE SortArticles(_, _, _)
SortArticles(as, n, desc) ==
    IF n = 0 THEN <<>>
    ELSE InsertStable(SortArticles(as, n - 1, desc), as[n], desc)

\* s.slice(0, n)
Slice(s, n) == SubSeq(s, 1, IF Len(s) < n THEN Len(s) ELSE n)

\* Variant: the sorted list is returned whole.
RankTopAll(as) == SortArticles(as, Len(as), TRUE)

\* articles.sort((a, b) => b.pageviews - a.pageviews).slice(0, 5)
RankTop(as) == Slice(SortArticles(as, Len(as), TRUE), 5)

\* Variant: articles without pageviews are left out of the bottom ranking.
RankFlopViewedOnly(as) ==
    LET viewed == SelectSeq(as, LAMBDA a : a.pageviews > 0)
    IN Slice(SortArticles(viewed, Len(viewed), FALSE), 5)

\* articles.sort((a, b) => a.pageviews - b.pageviews).slice(0, 5)
RankFlop(as) == Slice(SortArticles(as, Len(as), FALSE), 5)

RankStart ==
    /\ rpc = "start"
    /\ rop = "none"
    /\ rin \in RankInputs
    /\ rout = <<>>
    /\ rsorted = <<>>

Top5 ==
    /\ rpc = "start"
    /\ rout' = RankTop(rin)
    /\ rop' = "top5"
    /\ rpc' = "ranked"
    /\ UNCHANGED <<rin, rsorted>>
    /\ UNCHANGED <<reconVars, deltaVars, handlerVars, gscVars,
                 dateVars, clientVars, reviewVars>>

Flop5 ==
    /\ rpc = "start"
    /\ rout' = RankFlop(rin)
    /\ rop' = "flop5"
    /\ rpc' = "ranked"
    /\ UNCHANGED <<rin, rsorted>>
    /\ UNCHANGED <<reconVars, deltaVars, handlerVars, gscVars,
                 dateVars, clientVars, reviewVars>>

Top5NewThisMonth ==
    /\ rpc = "start"
    /\ rout' = RankTop(rin)
    /\ rop' = "top5New"
    /\ rpc' = "ranked"
    /\ UNCHANGED <<rin, rsorted>>
    /\ UNCHANGED <<reconVars, deltaVars, handlerVars, gscVars,
                 dateVars, clientVars, reviewVars>>

Flop5NewThisMonth ==
    /\ rpc = "start"
    /\ rout' = RankFlop(rin)
    /\ rop' = "flop5New"
    /\ rpc' = "ranked"
    /\ UNCHANGED <<rin, rsorted>>
    /\ UNCHANGED <<reconVars, deltaVars, handlerVars, gscVars,
                 dateVars, clientVars, reviewVars>>

\* The same sort and slice applied to the ranking that was returned.
Resort ==
    /\ rpc = "ranked"
    /\ rsorted' = IF rop \in {"top5", "top5New"} THEN RankTop(rout) ELSE RankFlop(rout)
    /\ rpc' = "resorted"
    /\ UNCHANGED <<rop, rin, rout>>
    /\ UNCHANGED <<reconVars, deltaVars, handlerVars, gscVars,
                 dateVars, clientVars, reviewVars>>

RankNext == Top5 \/ Flop5 \/ Top5NewThisMonth \/ Flop5NewThisMonth \/ Resort

RankInit == RankStart /\ ReconIdle /\ DeltaIdle /\ HandlerIdle /\ GscIdle
    /\ DateIdle /\ ClientIdle /\ ReviewIdle

SpecRank == RankInit /\ [][RankNext]_vars

\* ------------------------------------------------------------------------
\* topstories
\* ------------------------------------------------------------------------
\* Variant: a channel's value replaces the running total.
AddChannelsOverwrite(totals, channels) ==
    [c \in DOMAIN totals \cup DOMAIN channels |->
        IF c \in DOMAIN channels THEN channels[c] ELSE totals[c]]

\* Object.entries(a.channels).forEach(([ch, v]) =>
\*     { channelTotals[ch] = (channelTotals[ch] || 0) + v; })
AddChannels(totals, channels) ==
    [c \in DOMAIN totals \cup DOMAIN channels |->
        (IF c \in DOMAIN totals THEN totals[c] ELSE 0)
        + (IF c \in DOMAIN channels THEN channels[c] ELSE 0)]

\* sorted.forEach(a => ...), over the first n articles
RECURSIVE ChannelTotals(_, _)
ChannelTotals(as, n) ==
    IF n = 0 THEN EmptyMap
    ELSE AddChannels(ChannelTotals(as, n - 1), as[n].channels)

TopstoriesResult(as) ==
    LET sorted == SortArticles(as, Len(as), TRUE)
        totalPageviews == SumViews(sorted, Len(sorted))
    IN [kind |-> "result",
        count |-> Len(sorted),
        totalPageviews |-> totalPageviews,
        avgPageviews |-> IF Len(sorted) > 0
                         THEN MathRoundDiv(totalPageviews, Len(sorted)) ELSE 0,
        channelTotals |-> ChannelTotals(sorted, Len(sorted)),
        articles |-> sorted]

Topstories ==
    /\ pc = "mapped"
    /\ stories' = TopstoriesResult(articles)
    /\ pc' = "stories"
    /\ UNCHANGED <<posts, viewMap, nrows, articles, summary, analysis>>
    /\ UNCHANGED <<deltaVars, handlerVars, gscVars, rankVars,
                 dateVars, clientVars, reviewVars>>

\* ------------------------------------------------------------------------
\* contentAnalysis
\* ------------------------------------------------------------------------
\* The categories each content item carries in the CMS, by slug.  The
\* content query of getArticlesWithChannels asks for
\* _fields=id,title,link,date,slug, so the items it returns do not show them.
CmsCategories(slug) ==
    CASE slug = "a" -> <<1>>
      [] slug = "b" -> <<1, 2>>
      [] OTHER -> <<>>

\* wpFetch('categories?per_page=50&_fields=id,name,count,slug')
SiteCategories ==
    << [id |-> 1, name |-> "News", slug |-> "news"],
       [id |-> 2, name |-> "Aktien", slug |-> "aktien"] >>

\* cats.forEach(c => { catMap[c.id] = c; })
CatMap(cats) ==
    [id \in {cats[i].id : i \in 1..Len(cats)} |->
        cats[CHOOSE i \in 1..Len(cats) :
                /\ cats[i].id = id
                /\ \A j \in 1..Len(cats) : cats[j].id = id => j <= i]]

\* (a.categories || [])
ArticleCategories(a) == IF "categories" \in DOMAIN a THEN a.categories ELSE <<>>

\* The (category, article) pairs in the order the two nested forEach loops
\* visit them; `if (!cat) return` skips identifiers the category list lacks.
RECURSIVE Memberships(_, _, _)
Memberships(as, n, catMap) ==
    IF n = 0 THEN <<>>
    ELSE LET ids == SelectSeq(ArticleCategories(as[n]), LAMBDA id : id \in DOMAIN catMap)
         IN Memberships(as, n - 1, catMap)
            \o [k \in 1..Len(ids) |-> [cat |-> catMap[ids[k]], article |-> as[n]]]

\* The keys of categoryPerformance in insertion order.
RECURSIVE GroupNames(_, _)
GroupNames(ms, n) ==
    IF n = 0 THEN <<>>
    ELSE LET before == GroupNames(ms, n - 1)
         IN IF \E k \in 1..Len(before) : before[k] = ms[n].cat.name
            THEN before ELSE Append(before, ms[n].cat.name)

\* One entry of categoryPerformance with its average and its top 3 articles.
\* (topChannel, the first channel with the most views in the order the rows
\* arrived, is not represented: channel maps carry no order here.)
CategoryGroup(name, ms) ==
    LET mine == SelectSeq(ms, LAMBDA e : e.cat.name = name)
        arts == [k \in 1..Len(mine) |-> mine[k].article]
        total == SumViews(arts, Len(arts))
        shown == [k \in 1..Len(arts) |->
                     [title |-> arts[k].title, pageviews |-> arts[k].pageviews,
                      path |-> arts[k].path]]
    IN [name |-> name,
        slug |-> mine[1].cat.slug,
        count |-> Len(mine),
        totalPageviews |-> total,
        avgPageviews |-> IF Len(mine) > 0 THEN MathRoundDiv(total, Len(mine)) ELSE 0,
        channels |-> ChannelTotals(arts, Len(arts)),
        articles |-> Slice(SortArticles(shown, Len(shown), TRUE), 3)]

\* .sort((a, b) => b.totalPageviews - a.totalPageviews), stable
RECURSIVE SortGroups(_, _)
SortGroups(gs, n) ==
    IF n = 0 THEN <<>>
    ELSE LET s == SortGroups(gs, n - 1)
             x == gs[n]
         IN SelectSeq(s, LAMBDA e : x.totalPageviews - e.totalPageviews <= 0)
            \o <<x>>
            \o SelectSeq(s, LAMBDA e : x.totalPageviews - e.totalPageviews > 0)

ContentAnalysisResult(as, cats) ==
    LET ms == Memberships(as, Len(as), CatMap(cats))
        names == GroupNames(ms, Len(ms))
        groups == [k \in 1..Len(names) |-> CategoryGroup(names[k], ms)]
    IN [kind |-> "result",
        categories |-> SortGroups(groups, Len(groups)),
        totalArticles |-> Len(as),
        totalPageviews |-> SumViews(as, Len(as))]

\* getArticlesWithChannels has returned; the category list is fetched next.
ContentAnalysis ==
    /\ pc = "mapped"
    /\ analysis' = ContentAnalysisResult(articles, SiteCategories)
    /\ pc' = "analysed"
    /\ UNCHANGED <<posts, viewMap, nrows, articles, summary, stories>>
    /\ UNCHANGED <<deltaVars, handlerVars, gscVars, rankVars,
                 dateVars, clientVars, reviewVars>>

ReconNext ==
    \/ FetchPosts
    \/ ViewsRow
    \/ Reconcile
    \/ NewArticlesThisMonth
    \/ Topstories
    \/ ContentAnalysis

ReconInit == ReconStart /\ DeltaIdle /\ HandlerIdle /\ GscIdle /\ RankIdle
    /\ DateIdle /\ ClientIdle /\ ReviewIdle

SpecRecon == ReconInit /\ [][ReconNext]_vars

\* ------------------------------------------------------------------------
\* Properties of the reconciliation pipeline
\* ------------------------------------------------------------------------
Reconciled == pc \in {"mapped", "done", "stories", "analysed"}

\* The six path templates in the order the claims state them.
PriorityOrder(slug) ==
    << "/news/" \o slug \o "/", "/news/" \o slug,
       "/artikel/" \o slug \o "/", "/artikel/" \o slug,
       "/" \o slug \o "/", "/" \o slug >>

Unmatched(p) == \A k \in 1..6 : PriorityOrder(p.slug)[k] \notin DOMAIN viewMap

\* C1: getArticlesWithChannels returns exactly one reconciled article per
\* content item of the content fetch, in the same order, none dropped and
\* none duplicated, whatever the analytics rows are.
C1_OneArticlePerItem ==
    Reconciled =>
        /\ Len(articles) = Len(posts)
        /\ \A i \in 1..Len(posts) :
              /\ articles[i].title = posts[i].title
              /\ articles[i].slug = posts[i].slug

C1_Witness ==
    /\ pc = "mapped"
    /\ Len(posts) = 3
    /\ viewMap # EmptyMap
    /\ \E i \in 1..Len(posts) : Unmatched(posts[i])
    /\ \E i \in 1..Len(posts) : ~Unmatched(posts[i])

\* C2: each article takes pageviews and channel breakdown from the FIRST
\* candidate, in the order /news/<slug>/, /news/<slug>, /artikel/<slug>/,
\* /artikel/<slug>, /<slug>/, /<slug>, that has an entry in the path index;
\* a later candidate's entry is never used when an earlier one exists.  With
\* three items, two matching under /news/ and one only under /artikel/, all
\* three carry their matched nonzero pageviews.
C2_FirstCandidateWins ==
    Reconciled =>
        /\ \A i \in 1..Len(articles) :
              LET ord == PriorityOrder(posts[i].slug)
              IN \A k \in 1..6 :
                    (/\ ord[k] \in DOMAIN viewMap
                     /\ \A j \in 1..(k - 1) : ord[j] \notin DOMAIN viewMap)
                    => /\ articles[i].pageviews = viewMap[ord[k]].total
                       /\ articles[i].channels = viewMap[ord[k]].channels
        /\ (/\ Len(posts) = 3
            /\ posts[1].slug = "a" /\ posts[2].slug = "b" /\ posts[3].slug = "c"
            /\ DOMAIN viewMap = {"/news/a/", "/news/b/", "/artikel/c/"}
            /\ \A p \in DOMAIN viewMap : viewMap[p].total > 0)
           => /\ articles[1].pageviews = viewMap["/news/a/"].total
              /\ articles[2].pageviews = viewMap["/news/b/"].total
              /\ articles[3].pageviews = viewMap["/artikel/c/"].total
              /\ \A i \in 1..3 : articles[i].pageviews > 0

\* An earlier and a later candidate of the same item both have an entry,
\* with different totals.
C2_Witness ==
    /\ pc = "mapped"
    /\ \E i \in 1..Len(posts) :
          LET ord == PriorityOrder(posts[i].slug)
          IN \E k \in 1..6, l \in 1..6 :
                /\ k < l
                /\ ord[k] \in DOMAIN viewMap
                /\ ord[l] \in DOMAIN viewMap
                /\ viewMap[ord[k]].total # viewMap[ord[l]].total
                /\ articles[i].pageviews = viewMap[ord[k]].total

\* End-to-end scenario 1 is reachable.
C2_ScenarioReached ==
    /\ pc = "mapped"
    /\ Len(posts) = 3
    /\ posts[1].slug = "a" /\ posts[2].slug = "b" /\ posts[3].slug = "c"
    /\ DOMAIN viewMap = {"/news/a/", "/news/b/", "/artikel/c/"}
    /\ \A i \in 1..3 : articles[i].pageviews > 0

\* C3: when none of the six candidate paths of an item has an entry, its
\* article has pageviews 0 and an empty channel breakdown, and it is still
\* counted by newArticlesThisMonth.
C3_UnmatchedIsZeroAndCounted ==
    /\ Reconciled =>
          /\ Len(articles) = Len(posts)
          /\ \A i \in 1..Len(posts) :
                Unmatched(posts[i]) =>
                   /\ articles[i].pageviews = 0
                   /\ articles[i].channels = EmptyMap
    /\ pc = "done" =>
          /\ summary.count = Len(posts)
          /\ Len(summary.articles) = Len(posts)

C3_Witness ==
    /\ pc = "done"
    /\ viewMap # EmptyMap
    /\ \E i \in 1..Len(posts) : Unmatched(posts[i])
    /\ summary.count = Len(posts)
    /\ summary.pageviews > 0

\* C4: after any sequence of rows every path-index entry has total = sum of
\* its channel values, and every reconciled article has pageviews = sum of
\* its channels values.
C4_TotalIsChannelSum ==
    /\ \A p \in DOMAIN viewMap : viewMap[p].total = SumMap(viewMap[p].channels)
    /\ Reconciled =>
          \A i \in 1..Len(articles) :
             articles[i].pageviews = SumMap(articles[i].channels)

\* A (path, channel) pair was repeated and the path carries two channels.
C4_Witness ==
    /\ pc = "mapped"
    /\ \E i \in 1..Len(articles) :
          /\ Cardinality(DOMAIN articles[i].channels) = 2
          /\ \E c \in DOMAIN articles[i].channels : articles[i].channels[c] = 2
          /\ articles[i].pageviews = 3

\* ------------------------------------------------------------------------
\* Properties of the period delta
\* ------------------------------------------------------------------------
DeltaDone == dsite \in {"kpis", "monthlyStats", "searchConsole"}

\* C5: the period delta of monthlyStats, kpis and the search-console
\* summaries is null when the previous value is 0 (whatever the current
\* value, e.g. previous 0 and current 40), is 0 when current = previous > 0,
\* and otherwise is the integer nearest to (current - previous) / previous
\* * 100; delta(150, 100) = 50 and delta(50, 100) = -50.
C5_PeriodDelta ==
    DeltaDone =>
        /\ dprev = 0 => dres = Null
        /\ (dprev > 0 /\ dcur = dprev) => dres = Num(0)
        /\ dprev > 0 =>
              /\ dres.kind = "number"
              /\ dres.value \in Int
              /\ LET e == 2 * (100 * (dcur - dprev) - dres.value * dprev)
                 IN -dprev <= e /\ e <= dprev
        /\ (dcur = 150 /\ dprev = 100) => dres = Num(50)
        /\ (dcur = 50 /\ dprev = 100) => dres = Num(-50)
        /\ (dcur = 40 /\ dprev = 0) => dres = Null

\* A negative, properly rounded percentage was returned by monthlyStats.
C5_Witness ==
    /\ dsite = "monthlyStats"
    /\ dcur = 50 /\ dprev = 150
    /\ dres = Num(-67)

\* ------------------------------------------------------------------------
\* Properties of the handler and of batch
\* ------------------------------------------------------------------------
Responded == hpc = "done"

BatchResolved == Responded /\ req.method # "OPTIONS" /\ IsBatch /\ tasks # <<>>

\* What the callback of sub-action t stores once t has settled.
OutcomeOf(t) == IF t.st = "threw" THEN ErrMarker(t.err) ELSE Data(t.action)

\* The instance of identifier a that settled last.
LastSettled(a) ==
    LET pos == {n \in 1..Len(settled) : tasks[settled[n]].action = a}
    IN settled[CHOOSE n \in pos : \A m \in pos : m <= n]

NamedOnce(a) == Cardinality({k \in 1..Len(tasks) : tasks[k].action = a}) = 1

\* C6 as stated: once batch has resolved, every failing sub-action has its
\* error marker under its own key and every non-failing sub-action has its
\* data under its own key, whatever the completion order.
C6_EveryOutcomeUnderItsKey ==
    BatchResolved =>
        /\ resp.status = 200
        /\ \A k \in 1..Len(tasks) :
              tasks[k].action \in BatchActions =>
                 /\ tasks[k].action \in DOMAIN results
                 /\ results[tasks[k].action] = OutcomeOf(tasks[k])

\* C6 (amended): batch resolves with status 200 whichever sub-actions throw;
\* the key of every recognised identifier named in the request holds the
\* marker or the data of the instance of that identifier that settled last,
\* so an identifier named once has its marker stored if its sub-action
\* failed and its data if it did not, whatever the completion order.
C6_LastSettledOutcomeUnderKey ==
    /\ (IsBatch /\ req.method # "OPTIONS" /\ tasks # <<>>) =>
          /\ resp.status # 500
          /\ (\A k \in 1..Len(tasks) : Settled(tasks[k])) => Responded
    /\ BatchResolved =>
          /\ resp = Respond200(results)
          /\ \A k \in 1..Len(tasks) :
                LET a == tasks[k].action
                IN a \in BatchActions =>
                      /\ a \in DOMAIN results
                      /\ results[a] = OutcomeOf(tasks[LastSettled(a)])
                      /\ NamedOnce(a) => results[a] = OutcomeOf(tasks[k])

\* Two different sub-actions; the one started first failed after the other
\* had completed.
C6_Witness ==
    /\ BatchResolved
    /\ Len(tasks) = 2
    /\ tasks[1].action \in BatchActions
    /\ tasks[2].action \in BatchActions
    /\ tasks[1].action # tasks[2].action
    /\ tasks[1].st = "threw" /\ tasks[2].st = "returned"
    /\ settled = <<2, 1>>
    /\ results[tasks[1].action] = ErrMarker(tasks[1].err)
    /\ results[tasks[2].action] = Data(tasks[2].action)

\* C7: a batch request naming one valid and one unrecognised action yields
\* the valid action's data under its key and an error marker under the
\* unrecognised key, with HTTP status 200.
C7_InvalidKeyGetsMarker ==
    (/\ BatchResolved
     /\ Len(tasks) = 2
     /\ tasks[1].action \in BatchActions
     /\ tasks[1].st = "returned"
     /\ tasks[2].action \notin DispatchedActions)
    => /\ resp.status = 200
       /\ tasks[1].action \in DOMAIN resp.data
       /\ resp.data[tasks[1].action] = Data(tasks[1].action)
       /\ tasks[2].action \in DOMAIN resp.data
       /\ resp.data[tasks[2].action].kind = "_error"

\* The pipeline of the request ran to completion / threw.
PipelineReturned ==
    IF IsBatch
    THEN tasks # <<>> /\ \A k \in 1..Len(tasks) : Settled(tasks[k])
    ELSE Len(tasks) = 1 /\ tasks[1].st = "returned"

PipelineThrew ==
    IF IsBatch
    THEN tasks = <<>> /\ BatchParse(req.actions) = <<>>
    ELSE Len(tasks) = 1 /\ tasks[1].st = "threw"

\* C8: a non-OPTIONS request with a recognised action is answered 200 with
\* {success: true, data} exactly when its pipeline completes without
\* throwing, and 500 with {success: false, error: message} when it throws;
\* nothing else is sent.
C8_EnvelopeMatchesOutcome ==
    (Responded /\ req.method # "OPTIONS" /\ req.action \in DispatchedActions) =>
        \/ /\ PipelineReturned
           /\ resp.status = 200
           /\ resp.success = TRUE
           /\ resp.data = IF IsBatch THEN results ELSE Data(req.action)
        \/ /\ PipelineThrew
           /\ resp.status = 500
           /\ resp.success = FALSE
           /\ resp.error = IF IsBatch
                           THEN "actions parameter required (comma-separated)"
                           ELSE tasks[1].err

\* A reconciliation action whose analytics report failed after the content
\* fetch had succeeded.
C8_Witness ==
    /\ Responded
    /\ req.method = "GET"
    /\ req.action = "top5"
    /\ [svc |-> "ga4", write |-> FALSE] \in net
    /\ resp = Respond500("GA4 error")

\* C9: an unrecognised (or missing) action is answered 400 with
\* {success: false, error}, no pipeline runs, and the message names every
\* action identifier the dispatcher accepts.
C9_UnknownActionListsAll ==
    (Responded /\ req.method # "OPTIONS" /\ req.action \notin DispatchedActions) =>
        /\ resp.status = 400
        /\ resp.success = FALSE
        /\ tasks = <<>>
        /\ net = {}
        /\ DispatchedActions \subseteq resp.listed

\* The variables of process.env a plan reads.
RECURSIVE PlanEnv(_, _)
PlanEnv(plan, i) ==
    IF i > Len(plan) THEN {}
    ELSE LET s == plan[i]
             here ==
               CASE s.op = "need" -> {s.what} \cap EnvVars
                 [] s.op \in {"ga4client", "gscclient"} -> {"GA4_SERVICE_ACCOUNT_JSON"}
                 [] s.op = "par" ->
                      IF \E j \in 1..Len(s.calls) : s.calls[j].svc = "wp"
                      THEN {"WP_URL", "WP_USER", "WP_APP_PASS"} ELSE {}
         IN here \cup PlanEnv(plan, i + 1)

RequiredEnv ==
    IF IsBatch
    THEN UNION {PlanEnv(BatchPlan(a), 1) :
                  a \in {BatchParse(req.actions)[k] : k \in 1..Len(BatchParse(req.actions))}}
    ELSE PlanEnv(Plan(req.action, req), 1)

\* C10: when a secret or environment value an action requires is absent,
\* the action fails before any network request is issued and the response
\* is HTTP 500.  (Stated for directly dispatched actions; inside batch a
\* failure is answered with a marker and status 200.)
C10_MissingConfigFailsFast ==
    (/\ Responded
     /\ req.method # "OPTIONS"
     /\ req.action \in DispatchedActions \ {"batch"}
     /\ ~(RequiredEnv \subseteq env))
    => /\ resp.status = 500
       /\ net = {}

\* ------------------------------------------------------------------------
\* Properties of the search-console aggregation
\* ------------------------------------------------------------------------
GscSettled == gpc \in {"await", "done"} /\ \A j \in 1..4 : gst[j] \in {"ok", "failed"}

\* A value in tenths is the rounding of a value in hundredths.
IsTenthsOf(out, v) == 10 * out - v \in -5..5

SummaryShown(out, r) ==
    /\ out.clicks = r.clicks
    /\ out.impressions = r.impressions
    /\ IsTenthsOf(out.ctr, r.ctr)
    /\ IsTenthsOf(out.position, r.position)

RowsShown(out, rows, field) ==
    /\ Len(out) = Len(rows)
    /\ \A i \in 1..Len(rows) :
          /\ out[i][field] = rows[i].keys[1]
          /\ SummaryShown(out[i], rows[i])

ZeroSummary == [clicks |-> 0, impressions |-> 0, ctr |-> 0, position |-> 0]

\* C11: the four sub-queries of searchConsoleForPath[Regex] are issued
\* together and each is isolated: whichever subset fails, the function still
\* resolves; a failed query counts as an empty-rows result (zero summary, no
\* previous period, empty list) and the rows of every query that did not
\* fail are shown, in order, in the returned object.
C11_SubQueriesIsolated ==
    /\ (gpc # "off" /\ \E j \in 1..4 : gst[j] # "idle") => \A j \in 1..4 : gst[j] # "idle"
    /\ gpc # "off" =>
          \A j \in 1..4 :
             /\ gst[j] = "failed" => gres[j] = Fulfilled(<<>>)
             /\ gst[j] = "ok" => gres[j] = Fulfilled(gup[j])
    /\ GscSettled => \A j \in 1..4 : gres[j].state = "fulfilled"
    /\ gpc = "done" =>
          /\ GscSettled
          /\ gout.kind = "result"
          /\ gst[1] = "failed" => gout.summary = ZeroSummary
          /\ gst[2] = "failed" =>
                /\ gout.delta.clicks = Null
                /\ gout.delta.impressions = Null
          /\ gst[3] = "failed" => gout.keywords = <<>>
          /\ gst[4] = "failed" => gout.pages = <<>>
          /\ gst[1] = "ok" =>
                IF gup[1] = <<>> THEN gout.summary = ZeroSummary
                ELSE SummaryShown(gout.summary, gup[1][1])
          /\ gst[3] = "ok" => RowsShown(gout.keywords, gup[3], "keyword")
          /\ gst[4] = "ok" => RowsShown(gout.pages, gup[4], "page")

\* The previous-period and the keyword query failed although the service
\* held rows for them; the summary and the two pages are returned.
C11_Witness ==
    /\ gpc = "done"
    /\ gst = <<"ok", "failed", "failed", "ok">>
    /\ gup[1] # <<>> /\ gup[2] # <<>> /\ gup[3] # <<>>
    /\ Len(gup[4]) = 2
    /\ glog = 2
    /\ gout.summary.clicks = 3
    /\ gout.keywords = <<>>
    /\ Len(gout.pages) = 2

\* ------------------------------------------------------------------------
\* Properties of error handling in the handler
\* ------------------------------------------------------------------------
ReconActions == {"top5", "flop5", "top5New", "flop5New", "topstories", "newArticles"}

WpKind == [svc |-> "wp", write |-> FALSE]
Ga4Kind == [svc |-> "ga4", write |-> FALSE]

RECURSIVE CaughtIn(_, _)
CaughtIn(ts, k) ==
    IF k = 0 THEN 0
    ELSE ts[k].caught + (IF ts[k].st = "threw" THEN 1 ELSE 0) + CaughtIn(ts, k - 1)

\* C13: every error caught while a request is handled (handler catch, batch
\* per-action catch, search-console safeQuery, dailyPageviews
\* previous-period catch, fetchYoastFocusKeywords catch, contentAttribution
\* enrichment catch) is logged before it becomes an envelope, a marker or a
\* substitute value: the number of log entries equals the number of errors
\* caught.
C13_EveryCaughtErrorLogged ==
    (Responded /\ req.method # "OPTIONS" /\ req.action \in DispatchedActions) =>
        log = CaughtIn(tasks, Len(tasks))
              + (IF IsBatch /\ tasks = <<>> THEN 1 ELSE 0)

\* C14: a request that writes to the content-management API (publishPost,
\* createPost, the media upload of generateImage) is only ever sent while a
\* POST request is handled; no GET request causes one.
C14_WritesOnlyOnPost ==
    (hpc # "off" /\ [svc |-> "wp", write |-> TRUE] \in net) => req.method = "POST"

\* C20: an OPTIONS request is answered 200 without a body and with the CORS
\* headers set; no pipeline is started, no client is built, nothing is
\* requested or logged, and the answer does not depend on the action
\* parameter.
C20_PreflightAnswered ==
    /\ (hpc # "off" /\ req.method = "OPTIONS") =>
          /\ tasks = <<>>
          /\ net = {}
          /\ log = 0
          /\ ~ga4Client /\ ~gscClient
          /\ results = EmptyMap
    /\ (Responded /\ req.method = "OPTIONS") =>
          /\ resp = [status |-> 200, ended |-> TRUE, headers |-> CorsHeaders]
          /\ DOMAIN resp \cap {"success", "data", "error"} = {}

\* A preflight naming a write action without its postId, on a deployment
\* that lacks a credential.
C20_Witness ==
    /\ Responded
    /\ req.method = "OPTIONS"
    /\ req.action = "publishPost"
    /\ ~req.postId
    /\ env # EnvVars
    /\ resp.status = 200

\* ------------------------------------------------------------------------
\* Properties of the rankings
\* ------------------------------------------------------------------------
Ranked == rpc \in {"ranked", "resorted"}

Returned(a) == \E i \in 1..Len(rout) : rout[i] = a

\* C15: top5 returns the reconciled articles sorted by pageviews, highest
\* first, cut to at most 5: the result has min(5, number of articles)
\* entries, all of them different input articles, every returned article
\* has at least the pageviews of every article not returned, and adjacent
\* results are in non-increasing order.
C15_Top5SortedAndTruncated ==
    (Ranked /\ rop = "top5") =>
        /\ Len(rout) = IF Len(rin) < 5 THEN Len(rin) ELSE 5
        /\ \A i \in 1..Len(rout) : \E k \in 1..Len(rin) : rout[i] = rin[k]
        /\ \A i, j \in 1..Len(rout) : i # j => rout[i].title # rout[j].title
        /\ \A i \in 1..Len(rout), k \in 1..Len(rin) :
              ~Returned(rin[k]) => rout[i].pageviews >= rin[k].pageviews
        /\ \A i \in 1..(Len(rout) - 1) : rout[i].pageviews >= rout[i + 1].pageviews

\* Six articles, the newest without and the oldest with the most pageviews.
C15_Witness ==
    /\ rpc = "ranked"
    /\ rop = "top5"
    /\ Len(rin) = 6
    /\ rin[1].pageviews = 0
    /\ rin[6].pageviews = 2
    /\ Len(rout) = 5
    /\ rout[1].title = 6
    /\ ~Returned(rin[1])

\* C16: the top and bottom sorts are stable and idempotent: articles with
\* equal pageviews keep their input (newest first) order, and sorting and
\* slicing the returned ranking once more yields the same ranking.
C16_StableAndIdempotent ==
    /\ Ranked =>
          \A i, j \in 1..Len(rout) :
             (i < j /\ rout[i].pageviews = rout[j].pageviews)
             => rout[i].title < rout[j].title
    /\ rpc = "resorted" => rsorted = rout

\* A bottom ranking with a tie, from an input that was not in order.
C16_Witness ==
    /\ rpc = "resorted"
    /\ rop = "flop5"
    /\ Len(rin) = 6
    /\ rin[1].pageviews > rin[2].pageviews
    /\ \E i \in 1..4 : rout[i].pageviews = rout[i + 1].pageviews
    /\ rout # SubSeq(rin, 1, 5)
    /\ rsorted = rout

\* ------------------------------------------------------------------------
\* Properties of the aggregations over the reconciled articles
\* ------------------------------------------------------------------------
ViewsOf(a, ch) == IF ch \in DOMAIN a.channels THEN a.channels[ch] ELSE 0

RECURSIVE SumChannel(_, _, _)
SumChannel(as, n, ch) ==
    IF n = 0 THEN 0 ELSE ViewsOf(as[n], ch) + SumChannel(as, n - 1, ch)

\* The known categories the CMS records for a content item.
KnownCategories(p) ==
    { c \in {SiteCategories[k].id : k \in 1..Len(SiteCategories)} :
        \E n \in 1..Len(CmsCategories(p.slug)) : CmsCategories(p.slug)[n] = c }

CategoryName(c) ==
    SiteCategories[CHOOSE k \in 1..Len(SiteCategories) : SiteCategories[k].id = c].name

\* C17: contentAnalysis groups the reconciled articles by each category they
\* carry: an article in k known categories adds 1 to count and its
\* pageviews to totalPageviews of each of the k groups, so every category of
\* an article has a group whose totalPageviews is at least the article's
\* pageviews.
C17_GroupedByCategory ==
    pc = "analysed" =>
        \A i \in 1..Len(posts) :
           \A c \in KnownCategories(posts[i]) :
              \E k \in 1..Len(analysis.categories) :
                 /\ analysis.categories[k].name = CategoryName(c)
                 /\ analysis.categories[k].count >= 1
                 /\ analysis.categories[k].totalPageviews >= articles[i].pageviews

\* C18: in the result of topstories, channelTotals[channel] is the sum of
\* that channel's views over the returned articles, for every channel, and
\* the channelTotals values add up to totalPageviews, also when two articles
\* matched the same path and are both counted.
C18_ChannelRollup ==
    pc = "stories" =>
        /\ Len(stories.articles) = Len(articles)
        /\ DOMAIN stories.channelTotals =
              UNION {DOMAIN articles[i].channels : i \in 1..Len(articles)}
        /\ \A ch \in DOMAIN stories.channelTotals :
              /\ stories.channelTotals[ch] = SumChannel(articles, Len(articles), ch)
              /\ stories.channelTotals[ch] =
                    SumChannel(stories.articles, Len(stories.articles), ch)
        /\ SumMap(stories.channelTotals) = stories.totalPageviews

\* Two items share a slug and matched the same path, which has views from
\* both channels.
C18_Witness ==
    /\ pc = "stories"
    /\ \E i, j \in 1..Len(articles) :
          /\ i # j
          /\ articles[i].slug = articles[j].slug
          /\ articles[i].pageviews >= 2
          /\ Cardinality(DOMAIN articles[i].channels) = 2
          /\ stories.totalPageviews >= 2 * articles[i].pageviews
    /\ Cardinality(DOMAIN stories.channelTotals) = 2

\* avg is Math.round(total / count): floor(total / count + 1/2).
IsRoundedAverage(avg, total, count) ==
    /\ 2 * count * avg <= 2 * total + count
    /\ 2 * total + count < 2 * count * avg + 2 * count

\* C19: newArticlesThisMonth and topstories report count = the number of
\* reconciled articles, pageviews = the sum of their pageviews and
\* avgPageviews = round(pageviews / count), which is 0 when count is 0.
C19_CountSumAverage ==
    /\ pc = "done" =>
          /\ summary.count = Len(articles)
          /\ summary.pageviews = SumViews(articles, Len(articles))
          /\ IF summary.count = 0 THEN summary.avgPageviews = 0
             ELSE IsRoundedAverage(summary.avgPageviews, summary.pageviews, summary.count)
    /\ pc = "stories" =>
          /\ stories.count = Len(articles)
          /\ stories.totalPageviews = SumViews(articles, Len(articles))
          /\ IF stories.count = 0 THEN stories.avgPageviews = 0
             ELSE IsRoundedAverage(stories.avgPageviews, stories.totalPageviews,
                                   stories.count)

\* Three pageviews over two articles: the average 1.5 is reported as 2.
C19_Witness ==
    /\ pc = "done"
    /\ summary.count = 2
    /\ summary.pageviews = 3
    /\ summary.avgPageviews = 2

\* ------------------------------------------------------------------------
\* Lazily built API clients (getGA4Client, getSearchConsoleClient)
\* ------------------------------------------------------------------------
MaxCalls == 4

\* Who calls a getter: sub-actions of one batch, or later requests served by
\* the same warm context.  A getter is synchronous, so calls of concurrent
\* sub-actions interleave as whole calls.
Callers == {1, 2}

\* The getter without its first line: it builds a client on every call.
GetClientUncached(cache, count, key) ==
    IF key = "absent"
    THEN [cache |-> cache, count |-> count, outcome |-> "threw",
          value |-> 0, message |-> "GA4_SERVICE_ACCOUNT_JSON not set"]
    ELSE IF key = "malformed"
    THEN [cache |-> cache, count |-> count, outcome |-> "threw",
          value |-> 0, message |-> "SyntaxError"]
    ELSE [cache |-> count + 1, count |-> count + 1, outcome |-> "returned",
          value |-> count + 1, message |-> ""]

\* One call of a getter: the cached instance if there is one; else an error
\* when the key is absent or JSON.parse throws; else a new instance, cached.
GetClient(cache, count, key) ==
    IF cache # 0
    THEN [cache |-> cache, count |-> count, outcome |-> "returned",
          value |-> cache, message |-> ""]
    ELSE IF key = "absent"
    THEN [cache |-> cache, count |-> count, outcome |-> "threw",
          value |-> 0, message |-> "GA4_SERVICE_ACCOUNT_JSON not set"]
    ELSE IF key = "malformed"
    THEN [cache |-> cache, count |-> count, outcome |-> "threw",
          value |-> 0, message |-> "SyntaxError"]
    ELSE [cache |-> count + 1, count |-> count + 1, outcome |-> "returned",
          value |-> count + 1, message |-> ""]

GetterCall(fn, who, r) ==
    [fn |-> fn, who |-> who, outcome |-> r.outcome, value |-> r.value,
     message |-> r.message]

ClientStart ==
    /\ keyJson \in {"absent", "malformed", "valid"}
    /\ ga4Inst = 0
    /\ gscInst = 0
    /\ made = [ga4 |-> 0, gsc |-> 0]
    /\ getterCalls = <<>>

GetGA4Client ==
    /\ keyJson # "off"
    /\ Len(getterCalls) < MaxCalls
    /\ \E who \in Callers :
          LET r == GetClient(ga4Inst, made.ga4, keyJson)
          IN /\ ga4Inst' = r.cache
             /\ made' = [made EXCEPT !.ga4 = r.count]
             /\ getterCalls' = Append(getterCalls, GetterCall("ga4", who, r))
    /\ UNCHANGED <<keyJson, gscInst>>
    /\ UNCHANGED <<reconVars, deltaVars, handlerVars, gscVars, rankVars,
                   dateVars, reviewVars>>

GetSearchConsoleClient ==
    /\ keyJson # "off"
    /\ Len(getterCalls) < MaxCalls
    /\ \E who \in Callers :
          LET r == GetClient(gscInst, made.gsc, keyJson)
          IN /\ gscInst' = r.cache
             /\ made' = [made EXCEPT !.gsc = r.count]
             /\ getterCalls' = Append(getterCalls, GetterCall("gsc", who, r))
    /\ UNCHANGED <<keyJson, ga4Inst>>
    /\ UNCHANGED <<reconVars, deltaVars, handlerVars, gscVars, rankVars,
                   dateVars, reviewVars>>

ClientNext == GetGA4Client \/ GetSearchConsoleClient

ClientInit == ClientStart /\ ReconIdle /\ DeltaIdle /\ HandlerIdle /\ GscIdle
    /\ RankIdle /\ DateIdle /\ ReviewIdle

SpecClient == ClientInit /\ [][ClientNext]_vars

\* ------------------------------------------------------------------------
\* Properties of the lazily built clients
\* ------------------------------------------------------------------------
ReturnedBy(fn) ==
    {i \in 1..Len(getterCalls) :
        getterCalls[i].fn = fn /\ getterCalls[i].outcome = "returned"}

ThrownBy(fn) ==
    {i \in 1..Len(getterCalls) :
        getterCalls[i].fn = fn /\ getterCalls[i].outcome = "threw"}

\* C21: each of the two clients is constructed at most once, every getter
\* call that returns hands out that one instance whoever the caller is, and
\* a call that failed for missing credentials has left the cache empty.
C21_ClientBuiltOnce ==
    /\ made.ga4 <= 1
    /\ made.gsc <= 1
    /\ \A i \in ReturnedBy("ga4") :
          getterCalls[i].value = ga4Inst /\ ga4Inst # 0
    /\ \A i \in ReturnedBy("gsc") :
          getterCalls[i].value = gscInst /\ gscInst # 0
    /\ (ThrownBy("ga4") # {}) => (ga4Inst = 0 /\ made.ga4 = 0)
    /\ (ThrownBy("gsc") # {}) => (gscInst = 0 /\ made.gsc = 0)

\* Two different callers got the analytics client and one got the
\* search-console client.
C21_Witness ==
    /\ \E i, j \in ReturnedBy("ga4") :
          i < j /\ getterCalls[i].who # getterCalls[j].who
    /\ ReturnedBy("gsc") # {}
    /\ made = [ga4 |-> 1, gsc |-> 1]

\* A call failed for absent credentials.
C21_FailedCallReached ==
    /\ keyJson = "absent"
    /\ ThrownBy("ga4") # {}
    /\ ThrownBy("gsc") # {}

\* ------------------------------------------------------------------------
\* reviewCandidates: three content fetches, focus keywords, tagged output
\* ------------------------------------------------------------------------
MaxReviewPosts == 2

WpStatuses == {"publish", "draft", "pending"}

\* The items the CMS holds with one status; ids differ between statuses.
ReviewItems(base) ==
    {[i \in 1..n |-> [id |-> base + i]] : n \in 0..MaxReviewPosts}

Unsettled == [state |-> "pending", rows |-> <<>>]

\* A failed draft or pending fetch without its catch: the rejection stays.
OptionalFetchNoCatch == [state |-> "rejected", rows |-> <<>>]

\* .catch(() => []) on the draft and the pending fetch.
OptionalFetchCatch == [state |-> "fulfilled", rows |-> <<>>]

\* What one element of the Promise.all settles with when its fetch failed.
FetchFailed(status) ==
    IF status = "publish" THEN [state |-> "rejected", rows |-> <<>>]
    ELSE OptionalFetchCatch

NoKeywords == [i \in {} |-> ""]

\* What fetchYoastFocusKeywords can yield for the ids: a keyword for each,
\* or {} (request failed, not ok, or the custom field is not installed).
KeywordAnswers(ids) == {[i \in ids |-> "kw"], NoKeywords}

MapPost(p, status, kws) ==
    [id |-> p.id, wpStatus |-> status,
     focusKeyword |-> IF p.id \in DOMAIN kws THEN kws[p.id] ELSE ""]

MapPosts(ps, status, kws) ==
    [i \in 1..Len(ps) |-> MapPost(ps[i], status, kws)]

AllPosts(res) == res["pending"].rows \o res["draft"].rows \o res["publish"].rows

ReviewResult(res, kws) ==
    MapPosts(res["pending"].rows, "pending", kws)
        \o MapPosts(res["draft"].rows, "draft", kws)
        \o MapPosts(res["publish"].rows, "publish", kws)

ReviewStart ==
    /\ rvPc = "start"
    /\ \E pu \in ReviewItems(0), dr \in ReviewItems(10), pe \in ReviewItems(20) :
          rvUp = [publish |-> pu, draft |-> dr, pending |-> pe]
    /\ rvSt = <<>>
    /\ rvRes = <<>>
    /\ rvOut = NoOutput

\* The three wpFetch calls are started together.
ReviewCandidatesIssue ==
    /\ rvPc = "start"
    /\ rvPc' = "fetching"
    /\ rvSt' = [s \in WpStatuses |-> "pending"]
    /\ rvRes' = [s \in WpStatuses |-> Unsettled]
    /\ UNCHANGED <<rvUp, rvOut>>
    /\ UNCHANGED <<reconVars, deltaVars, handlerVars, gscVars, rankVars,
                   dateVars, clientVars>>

ReviewFetchResolves ==
    /\ rvPc \in {"fetching", "threw"}
    /\ \E s \in WpStatuses :
          /\ rvSt[s] = "pending"
          /\ rvSt' = [rvSt EXCEPT ![s] = "ok"]
          /\ rvRes' = [rvRes EXCEPT ![s] = [state |-> "fulfilled", rows |-> rvUp[s]]]
    /\ UNCHANGED <<rvPc, rvUp, rvOut>>
    /\ UNCHANGED <<reconVars, deltaVars, handlerVars, gscVars, rankVars,
                   dateVars, clientVars>>

\* wpFetch throws (network error or status not ok).  A rejected element
\* rejects the Promise.all and reviewCandidates throws.
ReviewFetchRejects ==
    /\ rvPc \in {"fetching", "threw"}
    /\ \E s \in WpStatuses :
          /\ rvSt[s] = "pending"
          /\ rvSt' = [rvSt EXCEPT ![s] = "failed"]
          /\ rvRes' = [rvRes EXCEPT ![s] = FetchFailed(s)]
          /\ rvPc' = IF FetchFailed(s).state = "rejected" THEN "threw" ELSE rvPc
    /\ UNCHANGED <<rvUp, rvOut>>
    /\ UNCHANGED <<reconVars, deltaVars, handlerVars, gscVars, rankVars,
                   dateVars, clientVars>>

\* Promise.all fulfilled: without any item fetchYoastFocusKeywords returns
\* {} at once and the (empty) list is returned; else its request is sent.
ReviewCollected ==
    /\ rvPc = "fetching"
    /\ \A s \in WpStatuses : rvRes[s].state = "fulfilled"
    /\ IF AllPosts(rvRes) = <<>>
       THEN /\ rvPc' = "done"
            /\ rvOut' = [kind |-> "list", items |-> ReviewResult(rvRes, NoKeywords)]
       ELSE /\ rvPc' = "keywords"
            /\ UNCHANGED rvOut
    /\ UNCHANGED <<rvUp, rvSt, rvRes>>
    /\ UNCHANGED <<reconVars, deltaVars, handlerVars, gscVars, rankVars,
                   dateVars, clientVars>>

FocusKeywordsSettle ==
    /\ rvPc = "keywords"
    /\ \E kws \in KeywordAnswers({AllPosts(rvRes)[i].id : i \in 1..Len(AllPosts(rvRes))}) :
          rvOut' = [kind |-> "list", items |-> ReviewResult(rvRes, kws)]
    /\ rvPc' = "done"
    /\ UNCHANGED <<rvUp, rvSt, rvRes>>
    /\ UNCHANGED <<reconVars, deltaVars, handlerVars, gscVars, rankVars,
                   dateVars, clientVars>>

ReviewNext ==
    \/ ReviewCandidatesIssue
    \/ ReviewFetchResolves
    \/ ReviewFetchRejects
    \/ ReviewCollected
    \/ FocusKeywordsSettle

ReviewInit == ReviewStart /\ ReconIdle /\ DeltaIdle /\ HandlerIdle /\ GscIdle
    /\ RankIdle /\ DateIdle /\ ClientIdle

SpecReview == ReviewInit /\ [][ReviewNext]_vars

\* ------------------------------------------------------------------------
\* Properties of reviewCandidates
\* ------------------------------------------------------------------------
ReviewIssued == rvPc \in {"fetching", "threw", "keywords", "done"}

\* The items a fetch contributed: what the CMS holds when it succeeded.
Contributed(s) == IF rvSt[s] = "ok" THEN rvUp[s] ELSE <<>>

TaggedAt(offset, ps, status) ==
    \A i \in 1..Len(ps) :
        /\ rvOut.items[offset + i].id = ps[i].id
        /\ rvOut.items[offset + i].wpStatus = status

\* C22: a failed draft or pending fetch counts as an empty list and does not
\* abort; a failed published fetch aborts the action with no result; a
\* returned list holds the pending items first, then the drafts, then the
\* published items, each tagged with its status.
C22_ReviewIsolationAndOrder ==
    ReviewIssued =>
        /\ \A s \in {"draft", "pending"} :
              rvSt[s] = "failed" => rvRes[s] = [state |-> "fulfilled", rows |-> <<>>]
        /\ rvSt["publish"] = "failed" => (rvPc = "threw" /\ rvOut = NoOutput)
        /\ rvPc = "threw" => rvSt["publish"] = "failed"
        /\ rvPc = "done" =>
              LET pe == Contributed("pending")
                  dr == Contributed("draft")
                  pu == Contributed("publish")
              IN /\ rvSt["publish"] = "ok"
                 /\ rvOut.kind = "list"
                 /\ Len(rvOut.items) = Len(pe) + Len(dr) + Len(pu)
                 /\ TaggedAt(0, pe, "pending")
                 /\ TaggedAt(Len(pe), dr, "draft")
                 /\ TaggedAt(Len(pe) + Len(dr), pu, "publish")

\* The draft fetch failed, the other two delivered items, a list came back.
C22_Witness ==
    /\ rvPc = "done"
    /\ rvSt["draft"] = "failed"
    /\ Len(rvUp["draft"]) > 0
    /\ rvSt["pending"] = "ok"
    /\ Len(rvUp["pending"]) = 2
    /\ Len(rvUp["publish"]) = 2

\* The published fetch failed after the other two had succeeded.
C22_AbortReached ==
    /\ rvPc = "threw"
    /\ rvSt = [publish |-> "failed", draft |-> "ok", pending |-> "ok"]

\* ------------------------------------------------------------------------
\* Dates: resolveDate, fmtDate, month boundaries, comparison ranges
\* ------------------------------------------------------------------------
\* Instants are counted in whole hours since the start of year 0 (UTC); a
\* value h stands for any instant of that hour.  Year 1 is a leap year.
\* The local offset is fixed (no daylight-saving change).
LeapYear == 1

YearLength(y) == IF y = LeapYear THEN 366 ELSE 365

MonthLength(y, m) ==
    IF m = 2 THEN (IF y = LeapYear THEN 29 ELSE 28)
    ELSE IF m \in {4, 6, 9, 11} THEN 30 ELSE 31

RECURSIVE DaysBeforeYear(_)
DaysBeforeYear(y) == IF y = 0 THEN 0 ELSE DaysBeforeYear(y - 1) + YearLength(y - 1)

RECURSIVE DaysBeforeMonth(_, _)
DaysBeforeMonth(y, m) ==
    IF m = 1 THEN 0 ELSE DaysBeforeMonth(y, m - 1) + MonthLength(y, m - 1)

\* Number of the calendar day y-m-d, counted from day 0 = 1 January of year 0.
DayIndex(y, m, d) == DaysBeforeYear(y) + DaysBeforeMonth(y, m) + d - 1

Years == 0..2

\* The calendar date of day number n.
DateOfDay(n) ==
    LET y == CHOOSE yy \in Years :
                 DaysBeforeYear(yy) <= n /\ n < DaysBeforeYear(yy) + YearLength(yy)
        r == n - DaysBeforeYear(y)
        m == CHOOSE mm \in 1..12 :
                 DaysBeforeMonth(y, mm) <= r /\ r < DaysBeforeMonth(y, mm) + MonthLength(y, mm)
    IN [y |-> y, m |-> m, d |-> r - DaysBeforeMonth(y, m) + 1]

\* getFullYear / getMonth / getDate: the calendar date in local time.
LocalDate(h, offset) == DateOfDay((h + offset) \div 24)

\* new Date(year, month, day): midnight of that day in local time.
LocalMidnight(y, m, d, offset) == DayIndex(y, m, d) * 24 - offset

\* new Date(date - 1): one millisecond before a full hour lies in the hour
\* before it.
MillisecondBefore(h) == h - 1

\* fmtDate: toISOString().split('T')[0], the calendar date in UTC.
FmtDate(h) == DateOfDay(h \div 24)

\* The four boundaries monthlyStats and the search-console helpers compute.
MonthBoundaries(now, offset) ==
    LET today == LocalDate(now, offset)
        firstDayThisMonth == LocalMidnight(today.y, today.m, 1, offset)
        lastDayLastMonth == MillisecondBefore(firstDayThisMonth)
        last == LocalDate(lastDayLastMonth, offset)
        firstDayLastMonth == LocalMidnight(last.y, last.m, 1, offset)
    IN [kind |-> "months",
        thisStart |-> FmtDate(firstDayThisMonth),
        thisEnd |-> FmtDate(now),
        lastStart |-> FmtDate(firstDayLastMonth),
        lastEnd |-> FmtDate(lastDayLastMonth)]

\* Range tokens of a request: 'today', '<N>daysAgo', an ISO date such as
\* '2024-03-01' (parsed as UTC midnight), or text Date cannot parse
\* ('foo', 'yesterday', 'lastMonth').
TokenDays == {1, 7, 14, 30, 90}
TokenDates == {DayIndex(1, 1, 1), DayIndex(1, 3, 1)}

RangeTokens ==
    {[kind |-> "today"], [kind |-> "unparseable"]}
        \cup {[kind |-> "daysAgo", n |-> n] : n \in TokenDays}
        \cup {[kind |-> "date", day |-> day] : day \in TokenDates}

InvalidDate == [valid |-> FALSE, h |-> 0]

\* resolveDate(d): the Date object it returns.  It never throws; text that
\* cannot be parsed gives an Invalid Date.
ResolveDate(token, now) ==
    IF token.kind = "today" THEN [valid |-> TRUE, h |-> now]
    ELSE IF token.kind = "daysAgo" THEN [valid |-> TRUE, h |-> now - 24 * token.n]
    ELSE IF token.kind = "date" THEN [valid |-> TRUE, h |-> 24 * token.day]
    ELSE InvalidDate

\* The first lines of getArticlesWithChannels as top5 and flop5 call it
\* (endDate 'today'): toISOString() of an Invalid Date throws a RangeError.
ArticlesRange(token, now) ==
    LET resolvedStart == ResolveDate(token, now)
        resolvedEnd == ResolveDate([kind |-> "today"], now)
    IN IF ~resolvedStart.valid
       THEN [kind |-> "threw", message |-> "RangeError: Invalid time value"]
       ELSE [kind |-> "range", after |-> resolvedStart.h,
             startDate |-> FmtDate(resolvedStart.h),
             endDate |-> FmtDate(resolvedEnd.h)]

\* daysMap[range] || 30
DaysOf(token) ==
    IF token.kind = "daysAgo" /\ token.n \in {1, 7, 30, 90} THEN token.n ELSE 30

\* The day the analytics service takes for a date token, with `today` the
\* day number of its own today.  It rejects text that is no date.
Ga4Day(token, today) ==
    IF token.kind = "today" THEN today
    ELSE IF token.kind = "daysAgo" THEN today - token.n
    ELSE token.day

DaysAgo(n) == [kind |-> "daysAgo", n |-> n]

\* The two dateRanges of the kpis report, as days from..to.
KpisRanges(token, today) ==
    IF token.kind = "unparseable"
    THEN [kind |-> "threw", message |-> "INVALID_ARGUMENT"]
    ELSE LET days == DaysOf(token)
         IN [kind |-> "ranges",
             cur |-> [from |-> Ga4Day(token, today), to |-> today],
             prev |-> [from |-> Ga4Day(DaysAgo(days * 2), today),
                       to |-> Ga4Day(DaysAgo(days), today)]]

\* The current and the previous range of dailyPageviews.
DailyPageviewsRanges(token, today) ==
    IF token.kind = "unparseable"
    THEN [kind |-> "threw", message |-> "INVALID_ARGUMENT"]
    ELSE LET days == DaysOf(token)
         IN [kind |-> "ranges",
             cur |-> [from |-> Ga4Day(token, today), to |-> today],
             prev |-> [from |-> Ga4Day(DaysAgo(days * 2), today),
                       to |-> Ga4Day(DaysAgo(days + 1), today)]]

\* Current instants: hours 0, 12 and 23 (UTC) of each day of year 1; local
\* offsets west of, at and east of UTC.
NowInstants == {24 * day + hr : day \in DayIndex(1, 1, 1)..DayIndex(1, 12, 31),
                                hr \in {0, 12, 23}}
UtcOffsets == {-5, 0, 1}

DateStart ==
    /\ clockNow \in NowInstants
    /\ clockOffset \in UtcOffsets
    /\ rangeToken \in RangeTokens
    /\ dateOp = "start"
    /\ dateOut = NoOutput

Ga4Today == (clockNow + clockOffset) \div 24

MonthlyStatsDates ==
    /\ dateOp = "start"
    /\ dateOp' = "monthlyStats"
    /\ dateOut' = MonthBoundaries(clockNow, clockOffset)
    /\ UNCHANGED <<clockNow, clockOffset, rangeToken>>
    /\ UNCHANGED <<reconVars, deltaVars, handlerVars, gscVars, rankVars,
                   clientVars, reviewVars>>

SearchConsoleDates ==
    /\ dateOp = "start"
    /\ dateOp' = "searchConsole"
    /\ dateOut' = MonthBoundaries(clockNow, clockOffset)
    /\ UNCHANGED <<clockNow, clockOffset, rangeToken>>
    /\ UNCHANGED <<reconVars, deltaVars, handlerVars, gscVars, rankVars,
                   clientVars, reviewVars>>

ResolveArticlesRange ==
    /\ dateOp = "start"
    /\ dateOp' = "articlesRange"
    /\ dateOut' = ArticlesRange(rangeToken, clockNow)
    /\ UNCHANGED <<clockNow, clockOffset, rangeToken>>
    /\ UNCHANGED <<reconVars, deltaVars, handlerVars, gscVars, rankVars,
                   clientVars, reviewVars>>

KpisDateRanges ==
    /\ dateOp = "start"
    /\ dateOp' = "kpis"
    /\ dateOut' = KpisRanges(rangeToken, Ga4Today)
    /\ UNCHANGED <<clockNow, clockOffset, rangeToken>>
    /\ UNCHANGED <<reconVars, deltaVars, handlerVars, gscVars, rankVars,
                   clientVars, reviewVars>>

DailyPageviewsDateRanges ==
    /\ dateOp = "start"
    /\ dateOp' = "dailyPageviews"
    /\ dateOut' = DailyPageviewsRanges(rangeToken, Ga4Today)
    /\ UNCHANGED <<clockNow, clockOffset, rangeToken>>
    /\ UNCHANGED <<reconVars, deltaVars, handlerVars, gscVars, rankVars,
                   clientVars, reviewVars>>

DateNext ==
    \/ MonthlyStatsDates
    \/ SearchConsoleDates
    \/ ResolveArticlesRange
    \/ KpisDateRanges
    \/ DailyPageviewsDateRanges

DateInit == DateStart /\ ReconIdle /\ DeltaIdle /\ HandlerIdle /\ GscIdle
    /\ RankIdle /\ ClientIdle /\ ReviewIdle

SpecDates == DateInit /\ [][DateNext]_vars

\* ------------------------------------------------------------------------
\* Properties of the date computations
\* ------------------------------------------------------------------------
DayOf(date) == DayIndex(date.y, date.m, date.d)

MonthsComputed == dateOp \in {"monthlyStats", "searchConsole"}

PreviousMonth(date) ==
    IF date.m = 1 THEN [y |-> date.y - 1, m |-> 12, d |-> 1]
    ELSE [y |-> date.y, m |-> date.m - 1, d |-> 1]

BoundariesExact ==
    LET today == LocalDate(clockNow, clockOffset)
        first == [y |-> today.y, m |-> today.m, d |-> 1]
    IN /\ dateOut.thisStart = first
       /\ DayOf(dateOut.lastEnd) + 1 = DayOf(dateOut.thisStart)
       /\ dateOut.lastStart = PreviousMonth(first)

\* C23: the formatted month boundaries are the first day of the current
\* month, the day before it and the first day of the previous month, so the
\* two ranges are contiguous and share no day, at every date and offset.
C23_MonthBoundaries == MonthsComputed => BoundariesExact

\* The same statement for an environment whose local time is UTC.
C23_ExactAtUtc == (MonthsComputed /\ clockOffset = 0) => BoundariesExact

\* East of UTC both ranges contain the last day of the previous month.
C23_SharedDayReached ==
    /\ MonthsComputed
    /\ clockOffset = 1
    /\ dateOut.thisStart = dateOut.lastEnd

\* C24: a token that is neither 'today' nor '<N>daysAgo' is taken as a
\* literal date and resolving the range of top5/flop5 with it never throws.
C24_LiteralTokenNeverThrows ==
    (dateOp = "articlesRange" /\ rangeToken.kind \notin {"today", "daysAgo"})
        => dateOut.kind = "range"

\* A literal ISO date is resolved without an error.
C24_LiteralDateResolved ==
    /\ dateOp = "articlesRange"
    /\ rangeToken.kind = "date"
    /\ dateOut.kind = "range"
    /\ dateOut.after = 24 * rangeToken.day

RangeLength(r) == r.to - r.from + 1

\* C25: for every '<N>daysAgo' the comparison range of kpis has as many days
\* as the current range, ends on the day before the current range starts and
\* shares no day with it.
C25_PreviousPeriodEquivalent ==
    (dateOp = "kpis" /\ rangeToken.kind = "daysAgo") =>
        /\ RangeLength(dateOut.prev) = RangeLength(dateOut.cur)
        /\ dateOut.prev.to + 1 = dateOut.cur.from
        /\ dateOut.prev.to < dateOut.cur.from

\* The part that holds for the four listed tokens: equal length.
C25_SameLengthForListedTokens ==
    (dateOp = "kpis" /\ rangeToken.kind = "daysAgo"
        /\ rangeToken.n \in {1, 7, 30, 90}) =>
        RangeLength(dateOut.prev) = RangeLength(dateOut.cur)

\* For a listed token the day N days ago belongs to both ranges.
C25_SharedDayReached ==
    /\ dateOp = "kpis"
    /\ rangeToken = DaysAgo(7)
    /\ dateOut.prev.to = dateOut.cur.from

\* ------------------------------------------------------------------------
\* Properties of the bottom rankings
\* ------------------------------------------------------------------------
ZeroViewIn(s) == {i \in 1..Len(s) : s[i].pageviews = 0}

Min(a, b) == IF a < b THEN a ELSE b

\* C26: flop5 and flop5NewThisMonth keep articles with 0 pageviews: the
\* result is the min(5, n) input articles with the fewest pageviews in
\* ascending order, and the zero-view articles fill its first positions.
C26_FlopKeepsZeroViews ==
    (Ranked /\ rop \in {"flop5", "flop5New"}) =>
        /\ Len(rout) = Min(5, Len(rin))
        /\ \A i \in 1..Len(rout) : \E k \in 1..Len(rin) : rout[i] = rin[k]
        /\ \A i, j \in 1..Len(rout) : i # j => rout[i].title # rout[j].title
        /\ \A i \in 1..Len(rout), k \in 1..Len(rin) :
              ~Returned(rin[k]) => rout[i].pageviews <= rin[k].pageviews
        /\ \A i \in 1..(Len(rout) - 1) : rout[i].pageviews <= rout[i + 1].pageviews
        /\ Cardinality(ZeroViewIn(rout)) = Min(5, Cardinality(ZeroViewIn(rin)))
        /\ ZeroViewIn(rout) = 1..Cardinality(ZeroViewIn(rout))

\* flop5NewThisMonth on six articles of which the third and fifth have no
\* pageviews: they come first, followed by articles with pageviews.
C26_Witness ==
    /\ rpc = "ranked"
    /\ rop = "flop5New"
    /\ Len(rin) = 6
    /\ ZeroViewIn(rin) = {3, 5}
    /\ rout[1].title = 3
    /\ rout[2].title = 5
    /\ rout[3].pageviews > 0
    /\ Len(rout) = 5

\* ------------------------------------------------------------------------
\* Properties of the order of requests and of the responses
\* ------------------------------------------------------------------------
ArticlesActions == ReconActions \cup {"contentAnalysis"}

Occurs(tr, e) == \E n \in 1..Len(tr) : tr[n] = e

\* The content fetch (step 1) came back and the code went on `skip` steps
\* further than the next one.
FetchCompleted(e) == e.ev = "completed" /\ e.step = 1

\* C27: in getArticlesWithChannels the analytics report is requested only
\* after the content fetch came back with at least one item; with no item
\* the function returns without constructing the analytics client and
\* without an analytics request; after a failed content fetch no analytics
\* request is made.
C27_ReportOnlyAfterItems ==
    hpc # "off" =>
        \A k \in 1..Len(tasks) :
           LET t == tasks[k]
               tr == t.trace
           IN (t.action \in ArticlesActions /\ t.plan # <<>>) =>
              /\ \A n \in 1..Len(tr) :
                    tr[n] = Requested("ga4") =>
                       \E m \in 1..(n - 1) : tr[m] = Completed(1, 0)
              /\ \A n \in 1..Len(tr) :
                    (FetchCompleted(tr[n]) /\ tr[n].skip > 0) =>
                       /\ ~Occurs(tr, Requested("ga4"))
                       /\ ~Occurs(tr, Constructed("ga4"))
                       /\ t.action # "contentAnalysis" =>
                             (t.st = "returned" /\ Len(tr) = n)
                       /\ ~IsBatch => (~ga4Client /\ Ga4Kind \notin net)
              /\ (t.st = "threw" /\ t.i = 1) =>
                    /\ ~Occurs(tr, Requested("ga4"))
                    /\ ~IsBatch => Ga4Kind \notin net

\* top5 with a content fetch that returned no item: answered with data,
\* no analytics client, only the content request on the network.
C27_Witness ==
    /\ Responded
    /\ req.action = "top5"
    /\ req.method = "GET"
    /\ tasks[1].trace = <<Requested("wp"), Completed(1, 2)>>
    /\ ~ga4Client
    /\ net = {WpKind}
    /\ resp = Respond200(Data("top5"))

\* The full path: items, then the client, then the report.
C27_ReportRequested ==
    /\ Responded
    /\ req.action = "flop5"
    /\ req.method = "GET"
    /\ tasks[1].trace = <<Requested("wp"), Completed(1, 0), Constructed("ga4"),
                          Requested("ga4"), Completed(3, 0)>>

\* C28: batch resolves only after every sub-action has settled, so no
\* response is sent while one is still running, and the keys of the result
\* are identifiers named in the request (one key per identifier, however
\* often it is named).
C28_BatchAwaitsEverySubAction ==
    (IsBatch /\ req.method # "OPTIONS" /\ tasks # <<>>) =>
        /\ Responded => \A k \in 1..Len(tasks) : Settled(tasks[k])
        /\ (\E k \in 1..Len(tasks) : ~Settled(tasks[k])) =>
              (resp = NoResp /\ responses = <<>>)
        /\ DOMAIN results \subseteq {tasks[k].action : k \in 1..Len(tasks)}
        /\ DOMAIN results \subseteq {req.actions[j] : j \in 1..Len(req.actions)}
        /\ Responded => resp.data = results

\* The same identifier named twice; both sub-actions ran and settled, the
\* second one first, and the result has the single key.
C28_Witness ==
    /\ BatchResolved
    /\ req.actions = <<"top5", "top5">>
    /\ Len(tasks) = 2
    /\ settled = <<2, 1>>
    /\ Ga4Kind \in net
    /\ DOMAIN results = {"top5"}

\* One sub-action has settled while the other is still waiting.
C28_StillRunningReached ==
    /\ IsBatch
    /\ Len(tasks) = 2
    /\ Settled(tasks[1])
    /\ tasks[2].st = "waiting"
    /\ resp = NoResp

PostIdActions == {"articleContent", "publishPost", "aiReview"}

\* C29: articleContent, publishPost and aiReview called without postId fail
\* with 'postId parameter required' before any network request (publishPost
\* sends no write) and the handler answers 500; aiReview with a postId but
\* without the AI key fails before it fetches the article.
C29_PostIdCheckedFirst ==
    (hpc \notin {"off", "start"} /\ req.method # "OPTIONS"
        /\ req.action \in PostIdActions) =>
        /\ ~req.postId =>
              /\ Responded
              /\ resp = Respond500("postId parameter required")
              /\ net = {}
              /\ tasks[1].trace = <<>>
        /\ (req.action = "aiReview" /\ req.postId
                /\ "ANTHROPIC_API_KEY" \notin env) =>
              /\ Responded
              /\ resp = Respond500("ANTHROPIC_API_KEY not set in environment")
              /\ net = {}

\* publishPost by POST without postId, everything configured.
C29_Witness ==
    /\ Responded
    /\ req.action = "publishPost"
    /\ req.method = "POST"
    /\ ~req.postId
    /\ "WP_URL" \in env
    /\ net = {}
    /\ resp.status = 500

\* aiReview with a postId and the content system configured, without the key.
C29_KeyCheckReached ==
    /\ Responded
    /\ req.action = "aiReview"
    /\ req.postId
    /\ "WP_URL" \in env
    /\ "ANTHROPIC_API_KEY" \notin env
    /\ net = {}

\* C30: the handler sends exactly one response for a request on every path:
\* none before it has finished, one when it has, never a second one, and it
\* has not finished while it waits for a request.
C30_ExactlyOneResponse ==
    hpc # "off" =>
        /\ Len(responses) <= 1
        /\ hpc = "done" <=> Len(responses) = 1
        /\ hpc = "done" => responses = <<resp.status>>
        /\ hpc # "done" => resp = NoResp
        /\ hpc = "await" =>
              \E k \in 1..Len(tasks) :
                 tasks[k].st = "waiting" /\ tasks[k].pending # {}

\* An unknown action answered once, with 400.
C30_Witness ==
    /\ hpc = "done"
    /\ req.method = "GET"
    /\ req.action \notin DispatchedActions
    /\ responses = <<400>>

\* The other paths: preflight, empty batch list, success, thrown error.
C30_PreflightReached == hpc = "done" /\ req.method = "OPTIONS" /\ responses = <<200>>

C30_EmptyBatchReached ==
    hpc = "done" /\ req.method = "GET" /\ IsBatch /\ tasks = <<>> /\ responses = <<500>>

C30_SuccessReached ==
    hpc = "done" /\ req.action = "kpis" /\ tasks # <<>> /\ responses = <<200>>

C30_ThrownReached ==
    hpc = "done" /\ req.action = "kpis" /\ tasks # <<>> /\ responses = <<500>>

====
